---- MODULE Spec2Model ----
(***************************************************************************)
(* Decision-and-dispatch pipeline of the Octopus Finance agent:            *)
(* RateLimiter, VaultCooldown, ExecutorAgent, ToolExecutor and the         *)
(* VaultMonitor scheduling loop.                                           *)
(*                                                                         *)
(* Time.  Every comparison the code makes on a timestamp is a comparison   *)
(* of a difference with Date.now().  Timestamps are therefore kept         *)
(* relative to the current instant: Date.now() reads Now, the passage of   *)
(* d milliseconds (Tick) moves every stored timestamp d further into the   *)
(* past, and a timestamp older than the largest span any comparison looks  *)
(* at is kept at that span.  Behaviours are infinite and time never stops. *)
(***************************************************************************)
EXTENDS Integers, Sequences, FiniteSets, TLC

VARIABLES
  maxCallsPerMinute, \* RateLimiter.state.maxCallsPerMinute, per instance
  lastCalls,         \* RateLimiter.state.lastCalls, per instance
  admitted,          \* history: every timestamp recorded by waitForSlot, per instance
  caller,            \* waitForSlot invocations: position, pending timer
  cooldownSeconds,   \* VaultCooldown.cooldownSeconds
  lastActions,       \* VaultCooldown.lastActions: Map<vaultId, timestamp>
  exec,              \* executeAction invocations: position, arguments, pending timer
  lastWrite,         \* history: time of the last successful on-chain write, per vault
  isRunning,         \* VaultMonitor.isRunning
  monitorInterval,   \* VaultMonitor.monitorInterval: the handle kept, or NoTimer (null)
  timers,            \* the interval timers armed in the event loop
  cycles,            \* runMonitoringCycle invocations in flight, by what started them
  ltvThresholds,     \* config.ltvThresholds
  health,            \* the VaultHealthMetrics last returned by calculateVaultHealth
  analyze,           \* the analyzeVault invocation: position, arguments, result
  authorizedVaults,  \* VaultMonitor.authorizedVaults: string[]
  autoRebalancePositions, \* VaultMonitor.autoRebalancePositions: Map<vaultId, positionId>
  lastRefresh,       \* VaultMonitor.lastRefresh
  demoCycleIndex,    \* VaultMonitor.demoCycleIndex
  cycleRun,          \* the runMonitoringCycle invocation: position, locals, events emitted
  analysisRun,       \* the analyzeVaults invocation: position, sorted list, results
  executionRun,      \* the executeActions invocation: position, actionable list, results
  ev                 \* the operation performed by the last step and what it returned

limiterVars == <<maxCallsPerMinute, lastCalls, admitted, caller>>
cooldownVars == <<cooldownSeconds, lastActions>>
execVars == <<exec, lastWrite>>
monitorVars == <<isRunning, monitorInterval, timers, cycles>>
analyzerVars == <<ltvThresholds, health, analyze>>
registryVars == <<authorizedVaults, autoRebalancePositions, lastRefresh, demoCycleIndex>>
runVars == <<cycleRun, analysisRun, executionRun>>
cycleVars == <<registryVars, runVars>>
vars == <<maxCallsPerMinute, lastCalls, admitted, caller, cooldownSeconds,
          lastActions, exec, lastWrite, isRunning, monitorInterval, timers,
          cycles, ltvThresholds, health, analyze, authorizedVaults,
          autoRebalancePositions, lastRefresh, demoCycleIndex, cycleRun,
          analysisRun, executionRun, ev>>

\* ---------------------------------------------------------------- bounds
MaxRpm == 2          \* configured caps range over 0..MaxRpm
MaxCalls == 2        \* waitForSlot calls started per caller
MaxTimers == 3       \* interval timers armed or about to be armed at one time
MaxInFlight == 3     \* monitoring cycles in flight at one time
MaxRuns == 1         \* analyzeVaults, executeActions or cycle calls made on their own

Limiters == {"Analyzer", "Executor"}
Callers == {"c1", "c2"}
Steps == {30000}          \* amount of time that may pass in one Tick (ms)
Vaults == {"v1", "v2"}
Slots == {"e1"}           \* executeAction invocations (a cycle awaits each in turn)
Positions == {"p1"}
\* executeAction arguments <<stakePositionId, pendingRewards, rewardReserve>>
Funds == {<<"p1", 5, 0>>, <<"null", 5, 3>>, <<"null", 5, 0>>, <<"null", 0, 0>>}
CooldownChoices == {0, 60}        \* MIN_REBALANCE_INTERVAL_SECONDS values
ExecutorRpmChoices == {1, 2}      \* EXECUTOR_MAX_RPM values
AnalyzerRpmChoices == {1}         \* ANALYZER_MAX_RPM values
Null == "null"

\* ---------------------------------------------------------------- helpers
Max(a, b) == IF a >= b THEN a ELSE b

\* ---------------------------------------------------------------- time
Now == 0                 \* Date.now()
Window == 60000          \* "now - 60000"
SafetyBuffer == 100      \* "+ 100; // +100ms buffer"
MinTimerDelay == 1       \* setTimeout runs a NaN or sub-millisecond delay after 1 ms
NaN == -1                \* undefined + 60000 - now + 100

\* A timestamp t after d more milliseconds, looked at over a span of h ms.
Aged(t, d, h) == Max(t - d, Now - h)

RECURSIVE AgedSeq(_, _, _)
AgedSeq(s, d, h) ==
  IF s = <<>> THEN <<>> ELSE <<Aged(Head(s), d, h)>> \o AgedSeq(Tail(s), d, h)

\* ---------------------------------------------------------------- RateLimiter
\* lastCalls.filter(t => t > oneMinuteAgo)
RecentCalls_NoExpiry(calls) == calls
RecentCalls(calls) ==
  LET oneMinuteAgo == Now - Window
  IN SelectSeq(calls, LAMBDA t : t > oneMinuteAgo)

\* if (lastCalls.length >= maxCallsPerMinute)
AtLimit_Off(L, kept) == Len(kept) > maxCallsPerMinute[L]
AtLimit(L, kept) == Len(kept) >= maxCallsPerMinute[L]

\* oldestCall + 60000 - now + 100, with oldestCall = lastCalls[0]
WaitTime(kept) ==
  IF kept = <<>> THEN NaN ELSE kept[1] + Window - Now + SafetyBuffer

\* sleep(ms): the delay after which the timer set by setTimeout(resolve, ms) expires
sleep(ms) == IF ms = NaN \/ ms < MinTimerDelay THEN MinTimerDelay ELSE ms

\* One pass through the body of waitForSlot on instance L: the filtered
\* window, whether the call is admitted, and the timer it sleeps on if not.
waitForSlot(L) ==
  LET kept == RecentCalls(lastCalls[L])
  IN IF AtLimit(L, kept)
       THEN [admit |-> FALSE, calls |-> kept,
             waitTime |-> WaitTime(kept), timer |-> sleep(WaitTime(kept))]
       ELSE [admit |-> TRUE, calls |-> Append(kept, Now),
             waitTime |-> 0, timer |-> 0]

canCall(L) == Len(RecentCalls(lastCalls[L])) < maxCallsPerMinute[L]

getRemainingCalls(L) ==
  Max(0, maxCallsPerMinute[L] - Len(RecentCalls(lastCalls[L])))

\* History of admissions: the timestamps waitForSlot has pushed, kept while
\* they lie in the trailing window (now - 60000, now].
Record(hist, r) == IF r.admit THEN Append(hist, Now) ELSE hist

NoGap == -1   \* the vault written had no earlier successful write

\* What the last step did: the operation, who ran it and, when an
\* executeAction call returned in that step, the ExecutionResult it returned;
\* for a query of the cooldown gate the answer, for a cleanup the entities
\* whose records it deleted, for a backend response without a tool selection
\* which of the two it was ("none": no function call, "noname": a call
\* without a name), for a return of analyzeVault the backend's response,
\* for getRemainingCalls the number it returned.
Ev(op, who) ==
  [op |-> op, who |-> who, limiter |-> "-", admit |-> FALSE, waitTime |-> 0,
   vault |-> "-", action |-> "-", success |-> FALSE, error |-> FALSE,
   resultVault |-> "-", path |-> "-", writes |-> 0, written |-> "-",
   gap |-> NoGap, answer |-> FALSE, removed |-> {}, selection |-> "-",
   response |-> "-", remaining |-> 0]

NoEvent == Ev("init", "-")

\* ---------------------------------------------------------------- VaultCooldown
\* canAct: "(Date.now() - lastAction) / 1000 >= cooldownSeconds", compared
\* in milliseconds.  A vault without a record can act.
canAct_NoGate(v) == TRUE
canAct_Strict(v) ==
  IF v \notin DOMAIN lastActions THEN TRUE
  ELSE LET elapsedMs == Now - lastActions[v]
       IN elapsedMs > cooldownSeconds * 1000
canAct(v) ==
  IF v \notin DOMAIN lastActions THEN TRUE
  ELSE LET elapsedMs == Now - lastActions[v]
       IN elapsedMs >= cooldownSeconds * 1000

\* recordAction: lastActions.set(vaultId, Date.now())
recordAction_IfReady(v) ==
  IF v \in DOMAIN lastActions /\ Now - lastActions[v] < cooldownSeconds * 1000
    THEN lastActions
    ELSE [x \in DOMAIN lastActions \cup {v} |-> IF x = v THEN Now ELSE lastActions[x]]
recordAction(v) ==
  [x \in DOMAIN lastActions \cup {v} |-> IF x = v THEN Now ELSE lastActions[x]]

\* getTimeUntilReady, in milliseconds (the code returns seconds).
getTimeUntilReady(v) ==
  IF v \notin DOMAIN lastActions THEN 0
  ELSE LET elapsedMs == Now - lastActions[v]
       IN Max(0, cooldownSeconds * 1000 - elapsedMs)

\* cleanup: delete the records with now - lastAction > threshold
cleanup_TooEarly ==
  LET threshold == (cooldownSeconds * 1000) \div 4
      kept == {v \in DOMAIN lastActions : ~(Now - lastActions[v] > threshold)}
  IN [v \in kept |-> lastActions[v]]
cleanup_AtThreshold ==
  LET threshold == cooldownSeconds * 2 * 1000
      kept == {v \in DOMAIN lastActions : ~(Now - lastActions[v] >= threshold)}
  IN [v \in kept |-> lastActions[v]]
cleanup ==
  LET threshold == cooldownSeconds * 2 * 1000
      kept == {v \in DOMAIN lastActions : ~(Now - lastActions[v] > threshold)}
  IN [v \in kept |-> lastActions[v]]

\* ---------------------------------------------------------------- ToolExecutor, SuiService
WriteTools == {"claim_and_rebalance", "rebalance_from_reserve"}
ToolNames == WriteTools \cup {"skip_action"}
UnknownTools == {"transfer_funds"}

Result(success, action, vaultId) ==
  [success |-> success, action |-> action, vaultId |-> vaultId, error |-> ~success]

\* ToolExecutor.execute(toolName, args): what the call does before its first
\* await.  Reading a field of absent args throws; a known write tool issues
\* the SuiService write on args.vault_id; skip_action and an unknown tool
\* return a result at once.
execute_DefaultThrows(toolName, args) ==
  IF toolName \in WriteTools /\ args.present
    THEN [kind |-> "write", tool |-> toolName, target |-> args.vault_id,
          result |-> Result(FALSE, "-", "-")]
  ELSE IF toolName = "skip_action" /\ args.present
    THEN [kind |-> "result", tool |-> toolName, target |-> "-",
          result |-> Result(TRUE, "skip", args.vault_id)]
  ELSE [kind |-> "throw", tool |-> toolName, target |-> "-",
        result |-> Result(FALSE, "-", "-")]
execute(toolName, args) ==
  IF toolName \in WriteTools
    THEN IF ~args.present
           THEN [kind |-> "throw", tool |-> toolName, target |-> "-",
                 result |-> Result(FALSE, "-", "-")]
           ELSE [kind |-> "write", tool |-> toolName, target |-> args.vault_id,
                 result |-> Result(FALSE, "-", "-")]
  ELSE IF toolName = "skip_action"
    THEN IF ~args.present
           THEN [kind |-> "throw", tool |-> toolName, target |-> "-",
                 result |-> Result(FALSE, "-", "-")]
           ELSE [kind |-> "result", tool |-> toolName, target |-> "-",
                 result |-> Result(TRUE, "skip", args.vault_id)]
  ELSE [kind |-> "result", tool |-> toolName, target |-> "-",
        result |-> Result(FALSE, toolName, "unknown")]

\* SuiService.executeClaimAndRebalance / executeRebalanceFromReserve: the
\* ExecutionResult for a transaction that went through (ok) or failed.  A
\* failure is caught and returned, never thrown.
SuiResult_Rethrow(tool, vaultId, ok) ==
  [threw |-> ~ok, result |-> Result(ok, tool, vaultId)]
SuiResult(tool, vaultId, ok) ==
  [threw |-> FALSE, result |-> Result(ok, tool, vaultId)]

\* ---------------------------------------------------------------- ExecutorAgent
IdleExec ==
  [pc |-> "idle", vault |-> "-", stake |-> Null, pendingRewards |-> 0,
   rewardReserve |-> 0, timer |-> 0, path |-> "-", tool |-> "-",
   target |-> "-", writes |-> 0]

Args(vault_id, stake_position_id) ==
  [present |-> TRUE, vault_id |-> vault_id, stake_position_id |-> stake_position_id]
NoArgs == [present |-> FALSE, vault_id |-> "-", stake_position_id |-> "-"]

\* What generateContent can come back with: an exception, no function call,
\* a function call without a name, or a call of any name with any arguments.
BackendOutcomes ==
  {[kind |-> k, name |-> "-", args |-> NoArgs] : k \in {"throw", "none", "noname"}}
  \cup {[kind |-> "call", name |-> n, args |-> a] :
          n \in ToolNames \cup UnknownTools,
          a \in {NoArgs} \cup {Args(v, p) : v \in Vaults, p \in Positions}}

\* "if (executionResult.success && toolCall.name !== 'skip_action')"
ShouldStamp_AnySuccess(result, toolName) == result.success
ShouldStamp(result, toolName) == result.success /\ toolName # "skip_action"

\* fallbackExecution: the tool call chosen locally.
fallbackExecution_IgnoresStake(call) ==
  IF call.pendingRewards > 0
    THEN execute("claim_and_rebalance", Args(call.vault, call.stake))
  ELSE IF call.rewardReserve > 0
    THEN execute("rebalance_from_reserve", Args(call.vault, Null))
  ELSE execute("skip_action", Args(call.vault, Null))
fallbackExecution(call) ==
  IF call.stake # Null /\ call.pendingRewards > 0
    THEN execute("claim_and_rebalance", Args(call.vault, call.stake))
  ELSE IF call.rewardReserve > 0
    THEN execute("rebalance_from_reserve", Args(call.vault, Null))
  ELSE execute("skip_action", Args(call.vault, Null))

\* executeAction returns `result` to its caller.
Return(s, result, path, writes, written) ==
  /\ exec' = [exec EXCEPT ![s] = IdleExec]
  /\ ev' = [Ev("return", s) EXCEPT !.vault = exec[s].vault,
              !.action = result.action, !.success = result.success,
              !.error = result.error, !.resultVault = result.vaultId,
              !.path = path, !.writes = writes, !.written = written,
              !.gap = IF written \in DOMAIN lastWrite
                        THEN Now - lastWrite[written] ELSE NoGap]

\* The SuiService write of plan p is issued; executeAction awaits it.
IssueWrite(s, p, path) ==
  /\ exec' = [exec EXCEPT ![s] = [@ EXCEPT !.pc = "write", !.path = path,
                 !.tool = p.tool, !.target = p.target, !.writes = @ + 1]]
  /\ ev' = [Ev("write", s) EXCEPT !.vault = exec[s].vault, !.path = path]

\* catch (error) { return this.fallbackExecution(...) }
Fallback(s) ==
  LET p == fallbackExecution(exec[s])
  IN /\ IF p.kind = "write"
          THEN IssueWrite(s, p, "fallback")
          ELSE Return(s, p.result, "fallback", exec[s].writes, "-")
     /\ UNCHANGED lastActions

\* The cooldown gate blocks: the 'cooldown' result is returned at once.
Blocked_ConsumesSlot(s, v) ==
  /\ lastCalls' = [lastCalls EXCEPT !["Executor"] = waitForSlot("Executor").calls]
  /\ admitted' = [admitted EXCEPT !["Executor"] = Record(@, waitForSlot("Executor"))]
  /\ ev' = [Ev("return", s) EXCEPT !.vault = v, !.action = "cooldown",
              !.success = FALSE, !.error = TRUE, !.resultVault = v,
              !.waitTime = getTimeUntilReady(v)]
  /\ UNCHANGED <<exec, lastActions>>
Blocked(s, v) ==
  /\ ev' = [Ev("return", s) EXCEPT !.vault = v, !.action = "cooldown",
              !.success = FALSE, !.error = TRUE, !.resultVault = v,
              !.waitTime = getTimeUntilReady(v)]
  /\ UNCHANGED <<lastCalls, admitted, exec, lastActions>>

\* "await this.rateLimiter.waitForSlot()" of invocation s, whose arguments
\* are in `call`; once admitted, generateContent is invoked and awaited.
Admission_Proceeds(s, call) ==
  LET r == waitForSlot("Executor")
  IN /\ lastCalls' = [lastCalls EXCEPT !["Executor"] = r.calls]
     /\ admitted' = [admitted EXCEPT !["Executor"] = Record(@, r)]
     /\ exec' = [exec EXCEPT ![s] = [call EXCEPT !.pc = "backend", !.timer = 0]]
     /\ ev' = [Ev("executeAction", s) EXCEPT !.vault = call.vault,
                 !.limiter = "Executor", !.admit = r.admit, !.waitTime = r.waitTime]
     /\ UNCHANGED lastActions
Admission(s, call) ==
  LET r == waitForSlot("Executor")
  IN /\ lastCalls' = [lastCalls EXCEPT !["Executor"] = r.calls]
     /\ admitted' = [admitted EXCEPT !["Executor"] = Record(@, r)]
     /\ exec' = [exec EXCEPT ![s] =
           [call EXCEPT !.pc = IF r.admit THEN "backend" ELSE "sleeping",
                        !.timer = r.timer]]
     /\ ev' = [Ev("executeAction", s) EXCEPT !.vault = call.vault,
                 !.limiter = "Executor", !.admit = r.admit, !.waitTime = r.waitTime]
     /\ UNCHANGED lastActions

\* executeAction(analysis, metrics, stakePositionId) is called; the
\* caller's own state is left to it.
executeAction(s, v, stake, pendingRewards, rewardReserve) ==
  /\ exec[s].pc = "idle"
  /\ IF ~canAct(v)
       THEN Blocked(s, v)
       ELSE Admission(s, [IdleExec EXCEPT !.vault = v, !.stake = stake,
                            !.pendingRewards = pendingRewards,
                            !.rewardReserve = rewardReserve])
  /\ UNCHANGED <<maxCallsPerMinute, caller, cooldownSeconds, lastWrite, monitorVars, analyzerVars,
                 registryVars, cycleRun, analysisRun>>

\* executeAction(analysis, metrics, stakePositionId) is called on its own.
ExecuteAction(s, v, stake, pendingRewards, rewardReserve) ==
  /\ executeAction(s, v, stake, pendingRewards, rewardReserve)
  /\ UNCHANGED executionRun

\* The sleep timer of a suspended executeAction has expired.
ExecRecheck(s) ==
  /\ exec[s].pc = "sleeping"
  /\ exec[s].timer = 0
  /\ Admission(s, exec[s])
  /\ UNCHANGED <<maxCallsPerMinute, caller, cooldownSeconds, lastWrite, monitorVars, analyzerVars,
                 cycleVars>>

\* "if (!functionCalls || functionCalls.length === 0) return {...}" and
\* "if (!toolCall.name) return {...}": the 'no_action' result is returned.
NoSelection_Stamps(s, kind) ==
  /\ exec' = [exec EXCEPT ![s] = IdleExec]
  /\ ev' = [Ev("return", s) EXCEPT !.vault = exec[s].vault,
              !.action = "no_action", !.success = FALSE, !.error = TRUE,
              !.resultVault = exec[s].vault, !.path = "main",
              !.selection = kind]
  /\ lastActions' = recordAction(exec[s].vault)
NoSelection(s, kind) ==
  /\ exec' = [exec EXCEPT ![s] = IdleExec]
  /\ ev' = [Ev("return", s) EXCEPT !.vault = exec[s].vault,
              !.action = "no_action", !.success = FALSE, !.error = TRUE,
              !.resultVault = exec[s].vault, !.path = "main",
              !.selection = kind]
  /\ UNCHANGED lastActions

\* generateContent comes back with outcome o.
BackendReturns(s, o) ==
  /\ exec[s].pc = "backend"
  /\ IF o.kind = "throw"
       THEN Fallback(s)
     ELSE IF o.kind \in {"none", "noname"}
       THEN NoSelection(s, o.kind)
     ELSE LET p == execute(o.name, o.args)
          IN IF p.kind = "throw"
               THEN Fallback(s)
             ELSE IF p.kind = "write"
               THEN IssueWrite(s, p, "main") /\ UNCHANGED lastActions
             ELSE /\ Return(s, p.result, "main", 0, "-")
                  /\ lastActions' = IF ShouldStamp(p.result, o.name)
                                      THEN recordAction(exec[s].vault)
                                      ELSE lastActions
  /\ UNCHANGED <<limiterVars, cooldownSeconds, lastWrite, monitorVars, analyzerVars,
                 cycleVars>>

\* The transaction submitted for invocation s went through (ok) or failed.
ChainReturns(s, ok) ==
  /\ exec[s].pc = "write"
  /\ LET call == exec[s]
         r == SuiResult(call.tool, call.target, ok)
     IN /\ IF r.threw /\ call.path = "main"
             THEN Fallback(s)
           ELSE /\ Return(s, r.result, call.path, call.writes,
                          IF ok THEN call.target ELSE "-")
                /\ lastActions' =
                     IF call.path = "main" /\ ShouldStamp(r.result, call.tool)
                       THEN recordAction(call.vault)
                       ELSE lastActions
        /\ lastWrite' = IF ok
             THEN [x \in DOMAIN lastWrite \cup {call.target} |->
                     IF x = call.target THEN Now ELSE lastWrite[x]]
             ELSE lastWrite
  /\ UNCHANGED <<limiterVars, cooldownSeconds, monitorVars, analyzerVars,
                 cycleVars>>

\* cleanupCooldowns(), run by a registry refresh.
CleanupCooldowns ==
  /\ lastActions' = cleanup
  /\ ev' = [Ev("cleanup", "-") EXCEPT !.removed = DOMAIN lastActions \ DOMAIN cleanup]
  /\ UNCHANGED <<limiterVars, cooldownSeconds, execVars, monitorVars, analyzerVars,
                 cycleVars>>

\* ---------------------------------------------------------------- VaultMonitor
NoTimer == 0   \* monitorInterval = null

\* Fields of a VaultMonitor after construction.
MonitorConstructed ==
  /\ isRunning = FALSE
  /\ monitorInterval = NoTimer
  /\ timers = {}
  /\ cycles = [o \in {"start", "timer"} |-> 0]

InFlight == cycles["start"] + cycles["timer"]

\* setInterval returns a handle that no armed timer has.
NewTimer == CHOOSE t \in 1..MaxTimers : t \notin timers

\* start(): returns at once when already running; otherwise sets isRunning
\* and awaits the initial runMonitoringCycle().
start_NoGuard ==
  /\ InFlight < MaxInFlight
  /\ Cardinality(timers) + cycles["start"] < MaxTimers
  /\ isRunning' = TRUE
  /\ cycles' = [cycles EXCEPT !["start"] = @ + 1]
  /\ ev' = Ev("start", "started")
  /\ UNCHANGED <<monitorInterval, timers>>
  /\ UNCHANGED <<limiterVars, cooldownVars, execVars, analyzerVars,
                 cycleVars>>
start ==
  /\ IF isRunning
       THEN /\ ev' = Ev("start", "noop")
            /\ UNCHANGED monitorVars
       ELSE /\ InFlight < MaxInFlight
            /\ Cardinality(timers) + cycles["start"] < MaxTimers
            /\ isRunning' = TRUE
            /\ cycles' = [cycles EXCEPT !["start"] = @ + 1]
            /\ ev' = Ev("start", "started")
            /\ UNCHANGED <<monitorInterval, timers>>
  /\ UNCHANGED <<limiterVars, cooldownVars, execVars, analyzerVars,
                 cycleVars>>

\* The initial cycle awaited by a start() has completed: start() resumes and
\* arms the interval, keeping its handle in monitorInterval.
StartResumes ==
  /\ cycles["start"] > 0
  /\ cycles' = [cycles EXCEPT !["start"] = @ - 1]
  /\ timers' = timers \cup {NewTimer}
  /\ monitorInterval' = NewTimer
  /\ ev' = Ev("setInterval", "start")
  /\ UNCHANGED isRunning
  /\ UNCHANGED <<limiterVars, cooldownVars, execVars, analyzerVars,
                 cycleVars>>

\* An armed interval timer fires: its callback calls runMonitoringCycle().
TimerFires(t) ==
  /\ t \in timers
  /\ InFlight < MaxInFlight
  /\ cycles' = [cycles EXCEPT !["timer"] = @ + 1]
  /\ ev' = Ev("runMonitoringCycle", "timer")
  /\ UNCHANGED <<isRunning, monitorInterval, timers>>
  /\ UNCHANGED <<limiterVars, cooldownVars, execVars, analyzerVars,
                 cycleVars>>

\* A cycle started by a timer runs to its end.
CycleCompletes ==
  /\ cycles["timer"] > 0
  /\ cycles' = [cycles EXCEPT !["timer"] = @ - 1]
  /\ ev' = Ev("cycleCompleted", "timer")
  /\ UNCHANGED <<isRunning, monitorInterval, timers>>
  /\ UNCHANGED <<limiterVars, cooldownVars, execVars, analyzerVars,
                 cycleVars>>

\* stop()
stop ==
  /\ IF monitorInterval # NoTimer
       THEN /\ timers' = timers \ {monitorInterval}
            /\ monitorInterval' = NoTimer
       ELSE UNCHANGED <<timers, monitorInterval>>
  /\ isRunning' = FALSE
  /\ ev' = Ev("stop", "-")
  /\ UNCHANGED cycles
  /\ UNCHANGED <<limiterVars, cooldownVars, execVars, analyzerVars,
                 cycleVars>>

\* ---------------------------------------------------------------- SuiService.calculateVaultHealth
\* Amounts are fixed-point numbers.  SCALE_FACTOR is 10^9 in the source; the
\* amounts here carry three decimals, which keeps every product within the
\* range of the model checker's integers.
SCALE_FACTOR == 1000
BPS_SCALE == 10000

Thresholds(w, r, m, l) ==
  [warning |-> w, rebalance |-> r, maxBorrow |-> m, liquidation |-> l]

\* LTV_WARNING_THRESHOLD, LTV_REBALANCE_THRESHOLD, LTV_MAX_BORROW, LTV_LIQUIDATION
DefaultThresholds == Thresholds(6000, 6500, 7000, 8000)

\* Profiles the environment or a strategy file can carry: the defaults, a
\* looser increasing profile, and one that is not increasing (nothing
\* validates the order).
LooserThresholds == Thresholds(6500, 7000, 8000, 8500)
ThresholdProfiles ==
  {DefaultThresholds, LooserThresholds, Thresholds(6000, 7000, 6500, 8000)}

Owners == {"alice"}
\* <<pendingRewards, rewardReserve>> of a vault and its stake position
RewardSamples == {<<5, 0>>, <<0, 3>>, <<0, 0>>}
CollateralAmounts == {0, 10000, 30000}
DebtAmounts ==
  {0, 4500, 5999, 6000, 6499, 6500, 6800, 6999, 7000, 7999, 8000, 8500}
Prices == {1000}     \* getCollateralPrice, one USD per token

VaultData(id, owner, collateralAmount, debtAmount, rewardReserve) ==
  [id |-> id, owner |-> owner, collateralAmount |-> collateralAmount,
   debtAmount |-> debtAmount, rewardReserve |-> rewardReserve]

\* "if (ltvBps >= liquidation) ... else if (ltvBps >= maxBorrow) ... else"
classify_Exclusive(ltvBps, thresholds) ==
  IF ltvBps > thresholds.liquidation THEN <<"LIQUIDATABLE", "URGENT_REBALANCE">>
  ELSE IF ltvBps > thresholds.maxBorrow THEN <<"CRITICAL", "URGENT_REBALANCE">>
  ELSE IF ltvBps > thresholds.rebalance THEN <<"AT_RISK", "REBALANCE">>
  ELSE IF ltvBps > thresholds.warning THEN <<"WARNING", "CLAIM_REWARDS">>
  ELSE <<"HEALTHY", "NONE">>
classify_SwappedLabels(ltvBps, thresholds) ==
  IF ltvBps >= thresholds.liquidation THEN <<"LIQUIDATABLE", "URGENT_REBALANCE">>
  ELSE IF ltvBps >= thresholds.maxBorrow THEN <<"CRITICAL", "URGENT_REBALANCE">>
  ELSE IF ltvBps >= thresholds.rebalance THEN <<"WARNING", "CLAIM_REWARDS">>
  ELSE IF ltvBps >= thresholds.warning THEN <<"AT_RISK", "REBALANCE">>
  ELSE <<"HEALTHY", "NONE">>
classify(ltvBps, thresholds) ==
  IF ltvBps >= thresholds.liquidation THEN <<"LIQUIDATABLE", "URGENT_REBALANCE">>
  ELSE IF ltvBps >= thresholds.maxBorrow THEN <<"CRITICAL", "URGENT_REBALANCE">>
  ELSE IF ltvBps >= thresholds.rebalance THEN <<"AT_RISK", "REBALANCE">>
  ELSE IF ltvBps >= thresholds.warning THEN <<"WARNING", "CLAIM_REWARDS">>
  ELSE <<"HEALTHY", "NONE">>

\* calculateVaultHealth(vault, stakePosition, collateralPrice), with
\* pendingRewards = stakePosition?.pendingRewards || 0n
calculateVaultHealth_RoundsUp(vault, pendingRewards, collateralPrice) ==
  LET collateralValue == (vault.collateralAmount * collateralPrice) \div SCALE_FACTOR
      debtValue == vault.debtAmount
      ltvBps == IF collateralValue > 0
                  THEN (debtValue * BPS_SCALE + collateralValue - 1) \div collateralValue
                  ELSE 0
      tier == classify(ltvBps, ltvThresholds)
  IN [vaultId |-> vault.id, owner |-> vault.owner,
      collateralValue |-> collateralValue, debtValue |-> debtValue,
      ltvBps |-> ltvBps, healthStatus |-> tier[1],
      rewardReserve |-> vault.rewardReserve, pendingRewards |-> pendingRewards,
      recommendedAction |-> tier[2]]
calculateVaultHealth(vault, pendingRewards, collateralPrice) ==
  LET collateralValue == (vault.collateralAmount * collateralPrice) \div SCALE_FACTOR
      debtValue == vault.debtAmount
      ltvBps == IF collateralValue > 0
                  THEN (debtValue * BPS_SCALE) \div collateralValue
                  ELSE 0
      tier == classify(ltvBps, ltvThresholds)
  IN [vaultId |-> vault.id, owner |-> vault.owner,
      collateralValue |-> collateralValue, debtValue |-> debtValue,
      ltvBps |-> ltvBps, healthStatus |-> tier[1],
      rewardReserve |-> vault.rewardReserve, pendingRewards |-> pendingRewards,
      recommendedAction |-> tier[2]]

NoMetrics ==
  [vaultId |-> "-", owner |-> "-", collateralValue |-> 0, debtValue |-> 0,
   ltvBps |-> 0, healthStatus |-> "-", rewardReserve |-> 0,
   pendingRewards |-> 0, recommendedAction |-> "-"]

\* The metrics returned by the last two calls, the latest in `last`.
NoHealth == [prev |-> NoMetrics, last |-> NoMetrics]

\* calculateVaultHealth is called for a vault read from the chain.
CalculateVaultHealth(vault, pendingRewards, collateralPrice) ==
  /\ health' = [prev |-> health.last,
                last |-> calculateVaultHealth(vault, pendingRewards, collateralPrice)]
  /\ ev' = [Ev("calculateVaultHealth", "-") EXCEPT !.vault = vault.id]
  /\ UNCHANGED <<limiterVars, cooldownVars, execVars, monitorVars,
                 ltvThresholds, analyze, cycleVars>>

\* ---------------------------------------------------------------- AnalyzerAgent
RecommendedActions ==
  {"NONE", "MONITOR", "CLAIM_REWARDS", "REBALANCE", "URGENT_REBALANCE"}

\* A field of the JSON answer: <<x>> when it is there with value x, Absent
\* when the answer does not have it (undefined).
Absent == <<>>
Field(x) == <<x>>
\* "field ?? default"
Coalesce(field, default) == IF field = Absent THEN default ELSE field[1]
FallbackConfidence == 9     \* "confidence: 0.9", in tenths
DefaultConfidence == 5      \* "parsed.confidence ?? 0.5", in tenths
TargetLtv == 5500           \* "const targetLtv = 5500"

\* Keys every object literal inherits from Object.prototype.
InheritedKeys == {"constructor"}

\* getUserStrategyPreferences(owner), then
\* prefs[metrics.owner] || prefs['default'] || 'Conservative'
StrategyName(owner) == IF owner # "" THEN "Degen" ELSE "Conservative"

\* What strategyLoader.getStrategy can come back with: an exception, null,
\* a strategy without thresholds, or a strategy with a profile.
StrategyOutcomes ==
  {[kind |-> k, thresholds |-> DefaultThresholds] : k \in {"throw", "null", "bare"}}
  \cup {[kind |-> "strategy", thresholds |-> t] : t \in ThresholdProfiles}

\* "strategy?.thresholds || this.config.ltvThresholds"
ResolveThresholds_BuiltIn(o) ==
  IF o.kind = "strategy" THEN o.thresholds ELSE DefaultThresholds
ResolveThresholds(o) ==
  IF o.kind = "strategy" THEN o.thresholds ELSE ltvThresholds

\* map[action] ?? RecommendedAction.NONE
parseAction(action) ==
  IF action = Absent THEN "NONE"
  ELSE IF action[1] \in RecommendedActions THEN action[1]
  ELSE IF action[1] \in InheritedKeys THEN "Object.prototype member"
  ELSE "NONE"

\* estimateRewardsNeeded(metrics)
estimateRewardsNeeded_NoClamp(metrics) ==
  (metrics.debtValue * BPS_SCALE) \div TargetLtv - metrics.collateralValue
estimateRewardsNeeded(metrics) ==
  LET requiredCollateral == (metrics.debtValue * BPS_SCALE) \div TargetLtv
      additional == requiredCollateral - metrics.collateralValue
  IN IF additional > 0 THEN additional ELSE 0

AnalysisResult(vaultId, shouldAct, action, reasoning, confidence, metrics) ==
  [vaultId |-> vaultId, shouldAct |-> shouldAct, action |-> action,
   reasoning |-> reasoning, confidence |-> confidence,
   estimatedRewardsNeeded |-> estimateRewardsNeeded(metrics),
   availableRewards |-> metrics.pendingRewards + metrics.rewardReserve]

NoAnalysis ==
  [vaultId |-> "-", shouldAct |-> FALSE, action |-> "-", reasoning |-> "-",
   confidence |-> 0, estimatedRewardsNeeded |-> 0, availableRewards |-> 0]

\* fallbackAnalysis(metrics, thresholds)
fallbackAnalysis_HealthyNeverActs(metrics, thresholds) ==
  LET funds == metrics.pendingRewards > 0 \/ metrics.rewardReserve > 0
      d == IF metrics.ltvBps >= thresholds.liquidation
             THEN <<TRUE, "URGENT_REBALANCE", "CRITICAL: Vault at liquidation risk">>
           ELSE IF metrics.ltvBps >= thresholds.maxBorrow
             THEN <<TRUE, "URGENT_REBALANCE", "Vault LTV exceeds max borrow threshold">>
           ELSE IF metrics.ltvBps >= thresholds.rebalance
             THEN <<funds, "REBALANCE", "Vault LTV in rebalance zone">>
           ELSE IF metrics.ltvBps >= thresholds.warning
             THEN <<funds, "CLAIM_REWARDS", "Vault LTV in warning zone">>
           ELSE <<FALSE, "NONE", "Vault is healthy and no funds available">>
  IN AnalysisResult(metrics.vaultId, d[1], d[2], d[3], FallbackConfidence, metrics)
fallbackAnalysis(metrics, thresholds) ==
  LET funds == metrics.pendingRewards > 0 \/ metrics.rewardReserve > 0
      d == IF metrics.ltvBps >= thresholds.liquidation
             THEN <<TRUE, "URGENT_REBALANCE", "CRITICAL: Vault at liquidation risk">>
           ELSE IF metrics.ltvBps >= thresholds.maxBorrow
             THEN <<TRUE, "URGENT_REBALANCE", "Vault LTV exceeds max borrow threshold">>
           ELSE IF metrics.ltvBps >= thresholds.rebalance
             THEN <<funds, "REBALANCE", "Vault LTV in rebalance zone">>
           ELSE IF metrics.ltvBps >= thresholds.warning
             THEN <<funds, "CLAIM_REWARDS", "Vault LTV in warning zone">>
           ELSE IF funds
             THEN <<TRUE, "CLAIM_REWARDS", "Vault healthy but rewards available">>
           ELSE <<FALSE, "NONE", "Vault is healthy and no funds available">>
  IN AnalysisResult(metrics.vaultId, d[1], d[2], d[3], FallbackConfidence, metrics)

\* JSON fields of a well-formed answer.  The prompt asks for shouldAct,
\* action, reasoning, confidence and priority; the backend may leave fields
\* out, name an action that does not exist, or add fields of its own.
Answer(shouldAct, action, confidence, rewards) ==
  [kind |-> "json", shouldAct |-> shouldAct, action |-> action,
   confidence |-> confidence, estimatedRewardsNeeded |-> rewards,
   availableRewards |-> rewards]

\* What generateContent can come back with: an exception, text without a
\* JSON object, text whose braces do not parse, or a JSON object.
AnalyzerOutcomes ==
  {[Answer(Absent, Absent, Absent, Absent) EXCEPT !.kind = k] :
      k \in {"throw", "nojson", "malformed"}}
  \cup {Answer(s, a, Absent, Absent) :
          s \in {Field(TRUE), Field(FALSE), Absent},
          a \in {Field("REBALANCE"), Field("SELL"), Field("constructor"), Absent}}
  \cup {Answer(Field(TRUE), Field(a), Absent, Absent) : a \in RecommendedActions}
  \cup {Answer(Field(TRUE), Field("REBALANCE"), Field(8), Field(999))}

\* parseAnalysisResponse(vaultId, response, metrics, thresholds): the result
\* and, when it is the fallback's, the profile the fallback was given.
parseAnalysisResponse(vaultId, response, metrics, thresholds) ==
  IF response.kind = "json"
    THEN [path |-> "parsed", used |-> thresholds,
          result |-> AnalysisResult(vaultId,
             Coalesce(response.shouldAct, FALSE),
             parseAction(response.action),
             "backend",
             Coalesce(response.confidence, DefaultConfidence),
             metrics)]
    ELSE [path |-> "parse-fallback", used |-> thresholds,
          result |-> fallbackAnalysis(metrics, thresholds)]

\* "catch (error) { ... return this.fallbackAnalysis(metrics, this.config.ltvThresholds) }"
analyzeVaultCatch_Rethrow(metrics) ==
  [threw |-> TRUE, path |-> "catch-fallback", used |-> ltvThresholds,
   result |-> NoAnalysis]
analyzeVaultCatch(metrics) ==
  [threw |-> FALSE, path |-> "catch-fallback", used |-> ltvThresholds,
   result |-> fallbackAnalysis(metrics, ltvThresholds)]

IdleAnalyze ==
  [pc |-> "idle", metrics |-> NoMetrics, timer |-> 0, strategy |-> "-",
   thresholds |-> DefaultThresholds, path |-> "-", used |-> DefaultThresholds,
   result |-> NoAnalysis]

\* Fields of the analyzer and of the health calculation after construction.
AnalyzerConstructed ==
  /\ ltvThresholds = DefaultThresholds
  /\ health = NoHealth
  /\ analyze = IdleAnalyze

\* "await this.rateLimiter.waitForSlot()" of analyzeVault(metrics); once
\* admitted the strategy is loaded.
AnalyzerAdmission(call) ==
  LET r == waitForSlot("Analyzer")
  IN /\ lastCalls' = [lastCalls EXCEPT !["Analyzer"] = r.calls]
     /\ admitted' = [admitted EXCEPT !["Analyzer"] = Record(@, r)]
     /\ analyze' = [call EXCEPT !.pc = IF r.admit THEN "strategy" ELSE "sleeping",
                                !.timer = r.timer]
     /\ ev' = [Ev("analyzeVault", "-") EXCEPT !.vault = call.metrics.vaultId,
                 !.limiter = "Analyzer", !.admit = r.admit, !.waitTime = r.waitTime]
     /\ UNCHANGED <<maxCallsPerMinute, caller, cooldownVars, execVars, monitorVars,
                    ltvThresholds, health, registryVars, cycleRun, executionRun>>

\* analyzeVault(metrics) is called; the caller's own state is left to it.
analyzeVault(metrics) ==
  /\ analyze.pc = "idle"
  /\ AnalyzerAdmission([IdleAnalyze EXCEPT !.metrics = metrics])

\* analyzeVault(metrics) is called on its own.
AnalyzeVault(metrics) ==
  /\ analyzeVault(metrics)
  /\ UNCHANGED analysisRun

\* The sleep timer of a suspended analyzeVault has expired.
AnalyzeRecheck ==
  /\ analyze.pc = "sleeping"
  /\ analyze.timer = 0
  /\ AnalyzerAdmission(analyze)
  /\ UNCHANGED analysisRun

\* getStrategy comes back with outcome o: the profile is resolved, the
\* prompt is built and generateContent is invoked.
StrategyResolved(o) ==
  /\ analyze.pc = "strategy"
  /\ analyze' = [analyze EXCEPT !.pc = "backend", !.strategy = o.kind,
                                 !.thresholds = ResolveThresholds(o)]
  /\ ev' = [Ev("getStrategy", StrategyName(analyze.metrics.owner)) EXCEPT
              !.vault = analyze.metrics.vaultId, !.error = (o.kind = "throw")]
  /\ UNCHANGED <<limiterVars, cooldownVars, execVars, monitorVars,
                 ltvThresholds, health, cycleVars>>

\* generateContent comes back with outcome o and analyzeVault completes.
AnalysisReturns(o) ==
  /\ analyze.pc = "backend"
  /\ LET m == analyze.metrics
         r == IF o.kind = "throw"
                THEN analyzeVaultCatch(m)
                ELSE [threw |-> FALSE] @@
                     parseAnalysisResponse(m.vaultId, o, m, analyze.thresholds)
     IN /\ analyze' = [analyze EXCEPT !.pc = "idle", !.path = r.path,
                          !.used = r.used, !.result = r.result]
        /\ ev' = [Ev(IF r.threw THEN "analyzeVault threw" ELSE "analyzeVault returned", "-")
                    EXCEPT !.vault = m.vaultId, !.error = r.threw,
                           !.resultVault = r.result.vaultId,
                           !.action = r.result.action, !.path = r.path,
                           !.response = o]
  /\ UNCHANGED <<limiterVars, cooldownVars, execVars, monitorVars,
                 ltvThresholds, health, cycleVars>>

\* ---------------------------------------------------------------- VaultMonitor.runMonitoringCycle
refreshIntervalMs == 300000

\* "private lastRefresh: number = 0": the epoch, further back than any
\* comparison looks.
NeverRefreshed == Now - refreshIntervalMs

IdleAnalysisRun ==
  [pc |-> "idle", calls |-> 0, metricsArray |-> <<>>, sorted |-> <<>>,
   started |-> <<>>, results |-> <<>>]

IdleExecutionRun ==
  [pc |-> "idle", calls |-> 0, passedOver |-> 0, actionable |-> <<>>, metricsMap |-> <<>>,
   positionsMap |-> <<>>, dispatched |-> <<>>, results |-> <<>>]

IdleCycle ==
  [pc |-> "idle", origin |-> "-", now |-> NeverRefreshed, onChainVaults |-> <<>>,
   metricsArray |-> <<>>, actionable |-> <<>>, reads |-> 0, cleanups |-> 0,
   failed |-> {}]

\* Fields of a VaultMonitor's registry after construction, with no
\* runMonitoringCycle, analyzeVaults or executeActions call in progress.
CycleConstructed ==
  /\ authorizedVaults = <<>>
  /\ autoRebalancePositions = <<>>
  /\ lastRefresh = NeverRefreshed
  /\ demoCycleIndex = 0
  /\ cycleRun = IdleCycle
  /\ analysisRun = IdleAnalysisRun
  /\ executionRun = IdleExecutionRun

\* ---------------------------------------------------------------- AnalyzerAgent.analyzeVaults
\* "[...metricsArray].sort((a, b) => b.ltvBps - a.ltvBps)": the stable
\* order, each element behind those of the same or a higher ltvBps that
\* came before it.
RECURSIVE SortByLtv_Ascending(_)
SortByLtv_Ascending(list) ==
  IF list = <<>> THEN <<>>
  ELSE LET rest == SortByLtv_Ascending(SubSeq(list, 1, Len(list) - 1))
           x == list[Len(list)]
           k == Cardinality({i \in 1..Len(rest) : rest[i].ltvBps <= x.ltvBps})
       IN SubSeq(rest, 1, k) \o <<x>> \o SubSeq(rest, k + 1, Len(rest))
RECURSIVE SortByLtv(_)
SortByLtv(list) ==
  IF list = <<>> THEN <<>>
  ELSE LET rest == SortByLtv(SubSeq(list, 1, Len(list) - 1))
           x == list[Len(list)]
           k == Cardinality({i \in 1..Len(rest) : rest[i].ltvBps >= x.ltvBps})
       IN SubSeq(rest, 1, k) \o <<x>> \o SubSeq(rest, k + 1, Len(rest))

\* The for-loop of analyzeVaults from the state `run`, up to its next
\* await: it calls analyzeVault for the next metrics, or returns the
\* results when none is left.
AnalysisLoop(run) ==
  IF run.sorted = <<>>
    THEN /\ analysisRun' = [run EXCEPT !.pc = "done"]
         /\ ev' = [Ev("analyzeVaults returned", "-") EXCEPT !.writes = Len(run.results)]
         /\ UNCHANGED <<limiterVars, cooldownVars, execVars, monitorVars,
                        analyzerVars, registryVars, cycleRun, executionRun>>
    ELSE /\ analyzeVault(Head(run.sorted))
         /\ analysisRun' = [run EXCEPT !.pc = "await", !.sorted = Tail(@),
                              !.started = Append(@, Head(run.sorted))]

\* analyzeVaults(metricsArray) is called.
analyzeVaults(metricsArray) ==
  /\ analysisRun.pc \in {"idle", "done"}
  /\ analyze.pc = "idle"
  /\ AnalysisLoop([IdleAnalysisRun EXCEPT !.calls = analysisRun.calls + 1,
                     !.metricsArray = metricsArray,
                     !.sorted = SortByLtv(metricsArray)])

\* analyzeVaults is called on its own.
AnalyzeVaults(metricsArray) ==
  /\ cycleRun.pc = "idle"
  /\ analysisRun.calls < MaxRuns
  /\ analyzeVaults(metricsArray)

\* The awaited analyzeVault has returned: its result is pushed and the
\* loop goes on.
AnalysisHasReturned ==
  /\ analysisRun.pc = "await"
  /\ analyze.pc = "idle"
VaultAnalysed ==
  /\ AnalysisHasReturned
  /\ AnalysisLoop([analysisRun EXCEPT !.results = Append(@, analyze.result)])

\* ---------------------------------------------------------------- ExecutorAgent.executeActions
BatchSlot == "e1"      \* executeActions awaits one executeAction at a time

\* priority[action]: undefined for a value that is no RecommendedAction
Undefined == -1
priority(action) ==
  CASE action = "URGENT_REBALANCE" -> 3
    [] action = "REBALANCE" -> 2
    [] action = "CLAIM_REWARDS" -> 1
    [] action \in {"MONITOR", "NONE"} -> 0
    [] OTHER -> Undefined

\* "(a, b) => priority[b.action] - priority[a.action]": negative when a
\* goes first.  With an undefined priority the difference is NaN, which
\* Array.prototype.sort reads as +0.
compare(a, b) ==
  IF priority(a.action) = Undefined \/ priority(b.action) = Undefined
    THEN 0
    ELSE priority(b.action) - priority(a.action)

\* ".filter((a) => a.shouldAct && a.action !== RecommendedAction.NONE)"
Actionable(analyses) ==
  SelectSeq(analyses, LAMBDA a : a.shouldAct /\ a.action # "NONE")

\* x is put behind every element of the sorted list that does not have to
\* come after it: the stable order.
RECURSIVE Insert(_, _)
Insert(x, sorted) ==
  IF sorted = <<>> THEN <<x>>
  ELSE IF compare(Head(sorted), x) > 0 THEN <<x>> \o sorted
  ELSE <<Head(sorted)>> \o Insert(x, Tail(sorted))

RECURSIVE StableSort(_)
StableSort(list) ==
  IF list = <<>> THEN <<>>
  ELSE Insert(list[Len(list)], StableSort(SubSeq(list, 1, Len(list) - 1)))

\* A comparator is consistent on a list when "compares equal" is
\* transitive there; only then is the sorted order defined by the language.
Consistent(list) ==
  \A i, j, k \in 1..Len(list) :
     (compare(list[i], list[j]) = 0 /\ compare(list[j], list[k]) = 0)
        => compare(list[i], list[k]) = 0

Orders(list) ==
  {[i \in 1..Len(list) |-> list[f[i]]] :
     f \in {g \in [1..Len(list) -> 1..Len(list)] :
              \A i, j \in 1..Len(list) : g[i] = g[j] => i = j}}

\* The orders ".sort(...)" can leave the list in: the stable order for a
\* consistent comparator, an implementation-defined one otherwise.
SortOutcomes(list) ==
  IF Consistent(list) THEN {StableSort(list)} ELSE Orders(list)

\* "if (!metrics) continue": the analyses at the front of the queue whose
\* vault has no metrics are passed over.
RECURSIVE SkipMissing(_, _)
SkipMissing(queue, metricsMap) ==
  IF queue = <<>> \/ Head(queue).vaultId \in DOMAIN metricsMap
    THEN queue
    ELSE SkipMissing(Tail(queue), metricsMap)

\* "positionsMap.get(analysis.vaultId) || null"
StakePositionId(positionsMap, vaultId) ==
  IF vaultId \in DOMAIN positionsMap /\ positionsMap[vaultId] # ""
    THEN positionsMap[vaultId]
    ELSE Null

\* The for-loop of executeActions from the state `run`, up to its next
\* await: it calls executeAction for the next analysis that has metrics,
\* or returns the results when none is left (the event keeps how many).
ExecutionLoop(run) ==
  LET queue == SkipMissing(run.actionable, run.metricsMap)
  IN IF queue = <<>>
       THEN /\ executionRun' = [run EXCEPT !.pc = "done", !.actionable = <<>>]
            /\ ev' = [Ev("executeActions returned", "-") EXCEPT
                        !.writes = Len(run.results)]
            /\ UNCHANGED <<limiterVars, cooldownVars, execVars, monitorVars,
                           analyzerVars, registryVars, cycleRun, analysisRun>>
       ELSE LET a == Head(queue)
                m == run.metricsMap[a.vaultId]
            IN /\ executeAction(BatchSlot, a.vaultId,
                                StakePositionId(run.positionsMap, a.vaultId),
                                m.pendingRewards, m.rewardReserve)
               /\ executionRun' = [run EXCEPT !.pc = "await",
                                     !.actionable = Tail(queue),
                                     !.dispatched = Append(@, a)]

\* executeActions(analyses, metricsMap, positionsMap) is called.
executeActions(analyses, metricsMap, positionsMap) ==
  /\ executionRun.pc \in {"idle", "done", "threw"}
  /\ exec[BatchSlot].pc = "idle"
  /\ \E order \in SortOutcomes(Actionable(analyses)) :
        ExecutionLoop([IdleExecutionRun EXCEPT
                         !.calls = executionRun.calls + 1,
                         !.passedOver = Len(analyses) - Len(order),
                         !.actionable = order, !.metricsMap = metricsMap,
                         !.positionsMap = positionsMap])

\* executeActions is called on its own.
ExecuteActions(analyses, metricsMap, positionsMap) ==
  /\ cycleRun.pc = "idle"
  /\ executionRun.calls < MaxRuns
  /\ executeActions(analyses, metricsMap, positionsMap)

\* The ExecutionResult the awaited executeAction has just returned.
Returned_Result ==
  [success |-> ev.success, action |-> ev.action, vaultId |-> ev.resultVault,
   error |-> ev.error]
ActionHasReturned ==
  /\ executionRun.pc = "await"
  /\ exec[BatchSlot].pc = "idle"
  /\ ev.op = "return" /\ ev.who = BatchSlot

\* The awaited executeAction has returned: the result is pushed and
\* logged ("result.vaultId.slice(0, 8)", a TypeError for a result without
\* vaultId, which executeActions lets through), and the loop goes on.
ActionReturned ==
  /\ ActionHasReturned
  /\ LET run == [executionRun EXCEPT !.results = Append(@, Returned_Result)]
     IN IF Returned_Result.vaultId = Null
          THEN /\ executionRun' = [run EXCEPT !.pc = "threw"]
               /\ ev' = [Ev("executeActions threw", "-") EXCEPT !.error = TRUE]
               /\ UNCHANGED <<limiterVars, cooldownVars, execVars, monitorVars,
                              analyzerVars, registryVars, cycleRun, analysisRun>>
          ELSE ExecutionLoop(run)

\* ---------------------------------------------------------------- VaultMonitor cycle
\* SAMPLE_VAULT_ID, SAMPLE_STAKE_POSITION_ID and DEMO_USER_ADDRESS of the
\* configuration (all three have non-empty defaults).
SampleVaultId == "sample"
SampleStakePositionId == "samplePosition"
DemoUserAddress == "demo"

\* The scenarios getDemoMetrics cycles through; 5_000_000_000n is 5 tokens.
DemoScenario(ltvBps, healthStatus, pendingRewards, rewardReserve) ==
  [ltvBps |-> ltvBps, healthStatus |-> healthStatus,
   pendingRewards |-> pendingRewards * SCALE_FACTOR,
   rewardReserve |-> rewardReserve * SCALE_FACTOR]
DemoScenarios ==
  <<DemoScenario(4500, "HEALTHY", 5, 0),
    DemoScenario(6200, "WARNING", 2, 3),
    DemoScenario(6800, "AT_RISK", 0, 8),
    DemoScenario(7500, "CRITICAL", 10, 5),
    DemoScenario(8500, "LIQUIDATABLE", 15, 10),
    DemoScenario(6800, "AT_RISK", 0, 0)>>

\* "map.get(key) || fallback"
GetOr(map, key, fallback) ==
  IF key \in DOMAIN map /\ map[key] # "" THEN map[key] ELSE fallback

\* map.set(key, value)
MapSet(map, key, value) ==
  [k \in DOMAIN map \cup {key} |-> IF k = key THEN value ELSE map[k]]

\* getDemoMetrics(): the metrics of one synthetic scenario for the first
\* tracked vault (the sample vault when none is tracked), the positions map
\* with that vault's position set, and the advanced scenario index.  The
\* index is only ever read modulo the number of scenarios, and is kept so.
getDemoMetrics ==
  LET realVaultId == IF authorizedVaults # <<>> /\ authorizedVaults[1] # ""
                       THEN authorizedVaults[1] ELSE SampleVaultId
      realPositionId == GetOr(autoRebalancePositions, realVaultId, SampleStakePositionId)
      scenario == DemoScenarios[(demoCycleIndex % Len(DemoScenarios)) + 1]
      collateralValue == 100 * SCALE_FACTOR
      metrics == [vaultId |-> realVaultId, owner |-> DemoUserAddress,
                  collateralValue |-> collateralValue,
                  debtValue |-> (scenario.ltvBps * collateralValue) \div 10000,
                  ltvBps |-> scenario.ltvBps, healthStatus |-> scenario.healthStatus,
                  rewardReserve |-> scenario.rewardReserve,
                  pendingRewards |-> scenario.pendingRewards,
                  recommendedAction |-> "NONE"]
  IN [metricsArray |-> <<metrics>>,
      positions |-> MapSet(autoRebalancePositions, realVaultId, realPositionId),
      index |-> (demoCycleIndex + 1) % Len(DemoScenarios)]

\* metricsMap: the metrics keyed by vault
MetricsMapOf(metricsArray) ==
  [v \in {metricsArray[i].vaultId : i \in 1..Len(metricsArray)} |->
     CHOOSE m \in {metricsArray[i] : i \in 1..Len(metricsArray)} : m.vaultId = v]

\* "if (now - this.lastRefresh < this.refreshIntervalMs) return"
RefreshDue_Always == TRUE
RefreshDue == ~(Now - lastRefresh < refreshIntervalMs)

\* "if (!this.authorizedVaults.includes(v)) this.authorizedVaults.push(v)"
MergeVaults_PushesAll(tracked, onChain) == tracked \o onChain
RECURSIVE MergeVaults(_, _)
MergeVaults(tracked, onChain) ==
  IF onChain = <<>> THEN tracked
  ELSE MergeVaults(IF \E i \in 1..Len(tracked) : tracked[i] = Head(onChain)
                     THEN tracked ELSE Append(tracked, Head(onChain)),
                   Tail(onChain))

\* "if (!this.autoRebalancePositions.has(vaultId)) set(vaultId, posId)"
MergePositions(known, onChain) ==
  [v \in DOMAIN known \cup DOMAIN onChain |->
     IF v \in DOMAIN known THEN known[v] ELSE onChain[v]]

\* runMonitoringCycle() is called by start() (origin "start", which first
\* sets isRunning) or by the callback of the armed interval t (origin
\* "timer"), and runs up to the first await of refreshCachedData: the chain
\* read when a refresh is due, the return of refreshCachedData otherwise.
RunMonitoringCycle(origin, t) ==
  /\ cycleRun.pc = "idle"
  /\ analysisRun.pc = "idle" /\ executionRun.pc = "idle"
  /\ IF origin = "start"
       THEN /\ ~isRunning
            /\ isRunning' = TRUE
            /\ UNCHANGED <<monitorInterval, timers, cycles>>
       ELSE /\ t \in timers
            /\ UNCHANGED monitorVars
  /\ cycleRun' = [IdleCycle EXCEPT !.pc = IF RefreshDue THEN "vaults" ELSE "refreshed",
                                   !.origin = origin, !.now = Now,
                                   !.reads = IF RefreshDue THEN 1 ELSE 0]
  /\ ev' = [Ev("runMonitoringCycle", origin) EXCEPT !.answer = RefreshDue]
  /\ UNCHANGED <<limiterVars, cooldownVars, execVars, analyzerVars, registryVars,
                 analysisRun, executionRun>>

\* The answer of a chain read whose event query had outcome o: what the
\* events name, or, the query having thrown, the empty answer of the catch.
ChainRead(kind, value) == [kind |-> kind, value |-> value]
getAuthorizedVaults(o) == IF o.kind = "throw" THEN <<>> ELSE o.value
getAutoRebalancePositions(o) == IF o.kind = "throw" THEN <<>> ELSE o.value

\* The reads of the refresh in progress that failed, o being the outcome of
\* the read called name.
FailedReads(name, o) ==
  cycleRun.failed \cup (IF o.kind = "throw" THEN {name} ELSE {})

\* getAuthorizedVaults() comes back, its event query having had outcome o;
\* getAutoRebalancePositions() is called.
VaultsRead(o) ==
  /\ cycleRun.pc = "vaults"
  /\ cycleRun' = [cycleRun EXCEPT !.pc = "positions",
                                  !.onChainVaults = getAuthorizedVaults(o),
                                  !.reads = @ + 1,
                                  !.failed = FailedReads("vaults", o)]
  /\ ev' = [Ev("getAuthorizedVaults", "-") EXCEPT !.error = (o.kind = "throw")]
  /\ UNCHANGED <<limiterVars, cooldownVars, execVars, monitorVars, analyzerVars,
                 registryVars, analysisRun, executionRun>>

\* getAutoRebalancePositions() comes back: both results are merged into the
\* registry, lastRefresh is stamped with the time refreshCachedData began
\* at, the cooldown records are cleaned up and refreshCachedData returns.
PositionsRead(o) ==
  /\ cycleRun.pc = "positions"
  /\ authorizedVaults' = MergeVaults(authorizedVaults, cycleRun.onChainVaults)
  /\ autoRebalancePositions' =
       MergePositions(autoRebalancePositions, getAutoRebalancePositions(o))
  /\ lastRefresh' = cycleRun.now
  /\ lastActions' = cleanup
  /\ cycleRun' = [cycleRun EXCEPT !.pc = "refreshed", !.onChainVaults = <<>>,
                                  !.cleanups = @ + 1,
                                  !.failed = FailedReads("positions", o)]
  /\ ev' = [Ev("refreshCachedData", "-") EXCEPT
              !.removed = DOMAIN lastActions \ DOMAIN cleanup]
  /\ UNCHANGED <<limiterVars, cooldownSeconds, execVars, monitorVars, analyzerVars,
                 demoCycleIndex, analysisRun, executionRun>>

\* addVault(vaultId, stakePositionId) is called, stakePositionId being ""
\* when the caller left it out: the vault is tracked if it was not, and a
\* position given is linked to it.
AddVault(vaultId, stakePositionId) ==
  /\ authorizedVaults' = MergeVaults(authorizedVaults, <<vaultId>>)
  /\ autoRebalancePositions' =
       IF stakePositionId # "" THEN MapSet(autoRebalancePositions, vaultId, stakePositionId)
       ELSE autoRebalancePositions
  /\ ev' = [Ev("addVault", "-") EXCEPT !.vault = vaultId]
  /\ UNCHANGED <<limiterVars, cooldownVars, execVars, monitorVars, analyzerVars,
                 lastRefresh, demoCycleIndex, runVars>>

\* refreshCachedData has returned: the cycle takes the demo metrics.
DemoMetrics ==
  /\ cycleRun.pc = "refreshed"
  /\ autoRebalancePositions' = getDemoMetrics.positions
  /\ demoCycleIndex' = getDemoMetrics.index
  /\ cycleRun' = [cycleRun EXCEPT !.pc = "analysis", !.now = NeverRefreshed,
                                  !.failed = {},
                                  !.metricsArray = getDemoMetrics.metricsArray]
  /\ ev' = Ev("getDemoMetrics", "-")
  /\ UNCHANGED <<limiterVars, cooldownVars, execVars, monitorVars, analyzerVars,
                 authorizedVaults, lastRefresh, analysisRun, executionRun>>

\* "await this.analyzer.analyzeVaults(metricsArray)": the call.
CycleAnalyzes ==
  /\ cycleRun.pc = "analysis"
  /\ analysisRun.pc = "idle"
  /\ analyzeVaults(cycleRun.metricsArray)

\* The cycle is over.  A cycle awaited by start() hands control back to it.
EndCycle(error) ==
  /\ cycleRun' = [IdleCycle EXCEPT
                    !.pc = IF cycleRun.origin = "start" THEN "returned" ELSE "idle"]
  /\ ev' = [Ev("cycle ended", cycleRun.origin) EXCEPT !.error = error,
              !.action = IF error THEN "error" ELSE "-",
              !.writes = IF error THEN 1 ELSE 0]

\* "analyses.filter((a) => a.shouldAct)" and "if (actionable.length === 0) return"
CycleActionable_All(analyses) == analyses
CycleActionable(analyses) == SelectSeq(analyses, LAMBDA a : a.shouldAct)

\* analyzeVaults has returned: the actionable analyses are kept; without
\* any the cycle returns.
CycleFilters ==
  /\ cycleRun.pc = "analysis"
  /\ analysisRun.pc = "done"
  /\ LET actionable == CycleActionable(analysisRun.results)
     IN IF actionable = <<>>
          THEN EndCycle(FALSE)
          ELSE /\ cycleRun' = [cycleRun EXCEPT !.pc = "dispatch",
                                               !.actionable = actionable]
               /\ ev' = [Ev("actionable", "-") EXCEPT !.writes = Len(actionable)]
  /\ analysisRun' = IdleAnalysisRun
  /\ UNCHANGED <<limiterVars, cooldownVars, execVars, monitorVars, analyzerVars,
                 registryVars, executionRun>>

\* "await this.executor.executeActions(actionable, metricsMap,
\* this.autoRebalancePositions)": the call.
CycleDispatches ==
  /\ cycleRun.pc = "dispatch"
  /\ executionRun.pc = "idle"
  /\ executeActions(cycleRun.actionable, MetricsMapOf(cycleRun.metricsArray),
                    autoRebalancePositions)

\* "catch (error) { ... this.emitEvent({ type: 'error', ... }) }"
CycleCatch_Rethrow == [emitted |-> 0, threw |-> TRUE]
CycleCatch == [emitted |-> 1, threw |-> FALSE]

\* executeActions has returned, and the results are summarised, or it has
\* thrown, and the catch block emits one 'error' event; the cycle is over.
CycleSummarises ==
  /\ cycleRun.pc = "dispatch"
  /\ executionRun.pc \in {"done", "threw"}
  /\ IF executionRun.pc = "threw"
       THEN /\ cycleRun' = [IdleCycle EXCEPT
                    !.pc = IF CycleCatch.threw THEN "threw"
                           ELSE IF cycleRun.origin = "start" THEN "returned"
                           ELSE "idle"]
            /\ ev' = [Ev("cycle ended", cycleRun.origin) EXCEPT !.error = TRUE,
                        !.action = "error", !.writes = CycleCatch.emitted]
       ELSE EndCycle(FALSE)
  /\ executionRun' = IdleExecutionRun
  /\ UNCHANGED <<limiterVars, cooldownVars, execVars, monitorVars, analyzerVars,
                 registryVars, analysisRun>>

\* start() resumes after its initial cycle and arms the interval.
StartArms ==
  /\ cycleRun.pc = "returned"
  /\ Cardinality(timers) < MaxTimers
  /\ timers' = timers \cup {NewTimer}
  /\ monitorInterval' = NewTimer
  /\ cycleRun' = IdleCycle
  /\ ev' = Ev("setInterval", "start")
  /\ UNCHANGED <<isRunning, cycles>>
  /\ UNCHANGED <<limiterVars, cooldownVars, execVars, analyzerVars, registryVars,
                 analysisRun, executionRun>>

\* A continuation of the cycle is ready to run.
CycleContinues ==
  \/ cycleRun.pc \in {"refreshed", "returned"}
  \/ cycleRun.pc = "analysis" /\ analysisRun.pc \in {"idle", "done"}
  \/ cycleRun.pc = "dispatch" /\ executionRun.pc \in {"idle", "done", "threw"}

\* ---------------------------------------------------------------- callers of one limiter
IdleCaller == [pc |-> "idle", limiter |-> "-", timer |-> 0, calls |-> 0]

\* The instance whose callers are modelled one by one.
UnderTest == "Analyzer"

\* A caller invokes waitForSlot() on instance L.
Call(c, L) ==
  /\ caller[c].pc = "idle"
  /\ caller[c].calls < MaxCalls
  /\ LET r == waitForSlot(L)
     IN /\ lastCalls' = [lastCalls EXCEPT ![L] = r.calls]
        /\ admitted' = [admitted EXCEPT ![L] = Record(@, r)]
        /\ caller' = [caller EXCEPT ![c] =
               [pc |-> IF r.admit THEN "idle" ELSE "sleeping",
                limiter |-> IF r.admit THEN "-" ELSE L,
                timer |-> r.timer,
                calls |-> @.calls + 1]]
        /\ ev' = [Ev("waitForSlot", c) EXCEPT !.limiter = L,
                  !.admit = r.admit, !.waitTime = r.waitTime]
  /\ UNCHANGED <<maxCallsPerMinute, cooldownVars, execVars, monitorVars, analyzerVars,
                 cycleVars>>

\* The sleep timer of a suspended caller has expired: "return this.waitForSlot()".
Recheck(c) ==
  /\ caller[c].pc = "sleeping"
  /\ caller[c].timer = 0
  /\ LET L == caller[c].limiter
         r == waitForSlot(L)
     IN /\ lastCalls' = [lastCalls EXCEPT ![L] = r.calls]
        /\ admitted' = [admitted EXCEPT ![L] = Record(@, r)]
        /\ caller' = [caller EXCEPT ![c] =
               [pc |-> IF r.admit THEN "idle" ELSE "sleeping",
                limiter |-> IF r.admit THEN "-" ELSE L,
                timer |-> r.timer,
                calls |-> @.calls]]
        /\ ev' = [Ev("recheck", c) EXCEPT !.limiter = L,
                  !.admit = r.admit, !.waitTime = r.waitTime]
  /\ UNCHANGED <<maxCallsPerMinute, cooldownVars, execVars, monitorVars, analyzerVars,
                 cycleVars>>

\* Timers that have not expired yet.
PendingTimers ==
  ({caller[c].timer : c \in Callers} \cup {exec[e].timer : e \in Slots}
     \cup {analyze.timer}) \ {0}

\* The longest span a comparison on a cooldown record looks at
\* (cleanup: now - lastAction > cooldownSeconds * 2 * 1000).
CooldownSpan == cooldownSeconds * 2 * 1000 + 1

\* d milliseconds pass.
Tick(d) ==
  /\ lastCalls' = [L \in Limiters |-> AgedSeq(lastCalls[L], d, Window)]
  /\ admitted' = [L \in Limiters |->
        SelectSeq(AgedSeq(admitted[L], d, Window), LAMBDA t : t > Now - Window)]
  /\ caller' = [c \in Callers |-> [caller[c] EXCEPT !.timer = Max(@ - d, 0)]]
  /\ exec' = [e \in Slots |-> [exec[e] EXCEPT !.timer = Max(@ - d, 0)]]
  /\ lastActions' = [v \in DOMAIN lastActions |-> Aged(lastActions[v], d, CooldownSpan)]
  /\ lastWrite' = [v \in DOMAIN lastWrite |-> Aged(lastWrite[v], d, cooldownSeconds * 1000)]
  /\ analyze' = [analyze EXCEPT !.timer = Max(@ - d, 0)]
  /\ lastRefresh' = Aged(lastRefresh, d, refreshIntervalMs)
  /\ cycleRun' = [cycleRun EXCEPT !.now = Aged(@, d, refreshIntervalMs)]
  /\ ev' = Ev("tick", "-")
  /\ UNCHANGED <<maxCallsPerMinute, cooldownSeconds, monitorVars, ltvThresholds, health,
                 authorizedVaults, autoRebalancePositions, demoCycleIndex,
                 analysisRun, executionRun>>

TimePasses == \E d \in Steps \cup PendingTimers : Tick(d)

InitRL ==
  /\ \E m \in 0..MaxRpm :
       maxCallsPerMinute = [L \in Limiters |-> IF L = UnderTest THEN m ELSE 0]
  /\ lastCalls = [L \in Limiters |-> <<>>]
  /\ admitted = [L \in Limiters |-> <<>>]
  /\ caller = [c \in Callers |-> IdleCaller]
  /\ cooldownSeconds = 0
  /\ lastActions = <<>>
  /\ exec = [e \in Slots |-> IdleExec]
  /\ lastWrite = <<>>
  /\ MonitorConstructed
  /\ AnalyzerConstructed
  /\ CycleConstructed
  /\ ev = NoEvent

NextRL ==
  \/ \E c \in Callers : Call(c, UnderTest)
  \/ \E c \in Callers : Recheck(c)
  \/ TimePasses

SpecRL == InitRL /\ [][NextRL]_vars

\* canCall() is called on instance L.
CanCall_Prunes(L) ==
  /\ lastCalls' = [lastCalls EXCEPT ![L] = RecentCalls(@)]
  /\ ev' = [Ev("canCall", "-") EXCEPT !.limiter = L, !.answer = canCall(L)]
  /\ UNCHANGED <<maxCallsPerMinute, admitted, caller, cooldownVars, execVars,
                 monitorVars, analyzerVars, cycleVars>>
CanCall(L) ==
  /\ ev' = [Ev("canCall", "-") EXCEPT !.limiter = L, !.answer = canCall(L)]
  /\ UNCHANGED <<limiterVars, cooldownVars, execVars, monitorVars, analyzerVars,
                 cycleVars>>

\* getRemainingCalls() is called on instance L.
GetRemainingCalls(L) ==
  /\ ev' = [Ev("getRemainingCalls", "-") EXCEPT !.limiter = L,
              !.remaining = getRemainingCalls(L)]
  /\ UNCHANGED <<limiterVars, cooldownVars, execVars, monitorVars, analyzerVars,
                 cycleVars>>

\* The two instances of the agent side by side, each with callers and
\* queries of its own.
InitLimiters ==
  /\ maxCallsPerMinute \in [Limiters -> 1..MaxRpm]
  /\ lastCalls = [L \in Limiters |-> <<>>]
  /\ admitted = [L \in Limiters |-> <<>>]
  /\ caller = [c \in Callers |-> IdleCaller]
  /\ cooldownSeconds = 0
  /\ lastActions = <<>>
  /\ exec = [e \in Slots |-> IdleExec]
  /\ lastWrite = <<>>
  /\ MonitorConstructed
  /\ AnalyzerConstructed
  /\ CycleConstructed
  /\ ev = NoEvent

NextLimiters ==
  \/ \E c \in Callers, L \in Limiters : Call(c, L)
  \/ \E c \in Callers : Recheck(c)
  \/ \E L \in Limiters : CanCall(L)
  \/ \E L \in Limiters : GetRemainingCalls(L)
  \/ TimePasses

SpecLimiters == InitLimiters /\ [][NextLimiters]_vars

\* Timers fire and the clock keeps advancing.
SpecRLFair ==
  /\ SpecRL
  /\ WF_vars(TimePasses)
  /\ \A c \in Callers : WF_vars(Recheck(c))

\* ---------------------------------------------------------------- executor
InitExec ==
  /\ \E m \in ExecutorRpmChoices :
       maxCallsPerMinute = [L \in Limiters |-> IF L = "Executor" THEN m ELSE 0]
  /\ lastCalls = [L \in Limiters |-> <<>>]
  /\ admitted = [L \in Limiters |-> <<>>]
  /\ caller = [c \in Callers |-> IdleCaller]
  /\ cooldownSeconds \in CooldownChoices
  /\ lastActions = <<>>
  /\ exec = [e \in Slots |-> IdleExec]
  /\ lastWrite = <<>>
  /\ MonitorConstructed
  /\ AnalyzerConstructed
  /\ CycleConstructed
  /\ ev = NoEvent

NextExec ==
  \/ \E s \in Slots, v \in Vaults, f \in Funds :
          ExecuteAction(s, v, f[1], f[2], f[3])
  \/ \E s \in Slots : ExecRecheck(s)
  \/ \E s \in Slots, o \in BackendOutcomes : BackendReturns(s, o)
  \/ \E s \in Slots, ok \in BOOLEAN : ChainReturns(s, ok)
  \/ CleanupCooldowns
  \/ \E d \in Steps : Tick(d)

SpecExec == InitExec /\ [][NextExec]_vars

\* ---------------------------------------------------------------- executeActions
\* The analyses handed to executeActions: the i-th is about the i-th vault
\* and carries one of these <<shouldAct, action>>; the last action is what
\* parseAction makes of an inherited key.
BatchVaults == <<"v1", "v2", "v3">>
Decisions ==
  {<<TRUE, "URGENT_REBALANCE">>, <<TRUE, "REBALANCE">>, <<TRUE, "CLAIM_REWARDS">>,
   <<TRUE, "MONITOR">>, <<TRUE, "NONE">>, <<FALSE, "REBALANCE">>,
   <<TRUE, parseAction(Field("constructor"))>>}
Decisions3 ==
  {<<TRUE, "URGENT_REBALANCE">>, <<TRUE, "REBALANCE">>,
   <<TRUE, parseAction(Field("constructor"))>>}

AnalysisOf(i, d) ==
  [NoAnalysis EXCEPT !.vaultId = BatchVaults[i], !.shouldAct = d[1], !.action = d[2]]

AnalysesSamples ==
  {<<>>}
  \cup {<<AnalysisOf(1, d)>> : d \in Decisions}
  \cup {<<AnalysisOf(1, d), AnalysisOf(2, e)>> : d, e \in Decisions}
  \cup {<<AnalysisOf(1, d), AnalysisOf(2, e),
          AnalysisOf(3, <<TRUE, "URGENT_REBALANCE">>)>> : d, e \in Decisions3}

\* metricsMap: every vault has metrics, or the second has none.
MetricsOf(v) ==
  [NoMetrics EXCEPT !.vaultId = v,
                    !.pendingRewards = IF v = "v1" THEN 5 ELSE 0,
                    !.rewardReserve = IF v = "v2" THEN 3 ELSE 0]
MetricsMaps ==
  {[v \in D |-> MetricsOf(v)] : D \in {{"v1", "v2", "v3"}, {"v1", "v3"}}}
CompleteMetricsMap == [v \in {"v1", "v2", "v3"} |-> MetricsOf(v)]

\* <<analyses, metricsMap>> of a call
BatchInputs ==
  {<<a, CompleteMetricsMap>> : a \in AnalysesSamples}
  \cup {<<a, m>> : a \in {x \in AnalysesSamples : Len(x) = 3}, m \in MetricsMaps}
PositionsMaps == {[v \in {"v1"} |-> "p1"]}

\* What generateContent comes back with in these runs.
BatchBackendOutcomes ==
  {[kind |-> k, name |-> "-", args |-> NoArgs] : k \in {"throw", "none"}}
  \cup {[kind |-> "call", name |-> "claim_and_rebalance", args |-> Args("v1", "p1")],
        [kind |-> "call", name |-> "skip_action", args |-> Args("v2", Null)],
        [kind |-> "call", name |-> "skip_action", args |-> Args(Null, Null)]}

BatchSteps == {60000}

\* Nothing else runs between the return of an awaited call and the
\* continuation of the caller that awaits it.
ContinuationReady == ActionHasReturned \/ AnalysisHasReturned \/ CycleContinues

TimeAdvances(d) ==
  /\ ~ContinuationReady
  /\ Tick(d)

InitBatch ==
  /\ \E m \in ExecutorRpmChoices :
       maxCallsPerMinute = [L \in Limiters |-> IF L = "Executor" THEN m ELSE 0]
  /\ lastCalls = [L \in Limiters |-> <<>>]
  /\ admitted = [L \in Limiters |-> <<>>]
  /\ caller = [c \in Callers |-> IdleCaller]
  /\ cooldownSeconds = 0
  /\ lastActions = <<>>
  /\ exec = [e \in Slots |-> IdleExec]
  /\ lastWrite = <<>>
  /\ MonitorConstructed
  /\ AnalyzerConstructed
  /\ CycleConstructed
  /\ ev = NoEvent

NextBatch ==
  \/ \E x \in BatchInputs, p \in PositionsMaps :
        ExecuteActions(x[1], x[2], p)
  \/ ActionReturned
  \/ ExecRecheck(BatchSlot)
  \/ \E o \in BatchBackendOutcomes : BackendReturns(BatchSlot, o)
  \/ \E ok \in BOOLEAN : ChainReturns(BatchSlot, ok)
  \/ \E d \in BatchSteps : TimeAdvances(d)

SpecBatch == InitBatch /\ [][NextBatch]_vars

\* ---------------------------------------------------------------- analyzeVaults
\* The vaults handed over, as lists of <<vault, pendingRewards>>: the i-th
\* entry is the i-th vault with one of three debts, so lists arrive in
\* every order of LTV, ties included.
SweepDebts == {4500, 6800, 8500}
SweepVault(i, d) ==
  <<VaultData(BatchVaults[i], "alice", 10000, d, 0), IF i = 1 THEN 5 ELSE 0>>
SweepInputs ==
  {<<>>}
  \cup {<<SweepVault(1, d)>> : d \in SweepDebts}
  \cup {<<SweepVault(1, d), SweepVault(2, e)>> : d, e \in SweepDebts}
  \cup {<<SweepVault(1, d), SweepVault(2, e), SweepVault(3, f)>> :
          d, e, f \in SweepDebts}

\* What getStrategy and generateContent come back with in these runs.
SweepStrategyOutcomes ==
  {[kind |-> "null", thresholds |-> DefaultThresholds],
   [kind |-> "strategy", thresholds |-> LooserThresholds]}
SweepAnalyzerOutcomes ==
  {[Answer(Absent, Absent, Absent, Absent) EXCEPT !.kind = "throw"],
   Answer(Field(TRUE), Field("REBALANCE"), Absent, Absent),
   Answer(Absent, Field("constructor"), Absent, Absent)}

InitSweep ==
  /\ \E m \in AnalyzerRpmChoices :
       maxCallsPerMinute = [L \in Limiters |-> IF L = "Analyzer" THEN m ELSE 0]
  /\ lastCalls = [L \in Limiters |-> <<>>]
  /\ admitted = [L \in Limiters |-> <<>>]
  /\ caller = [c \in Callers |-> IdleCaller]
  /\ cooldownSeconds = 0
  /\ lastActions = <<>>
  /\ exec = [e \in Slots |-> IdleExec]
  /\ lastWrite = <<>>
  /\ MonitorConstructed
  /\ AnalyzerConstructed
  /\ CycleConstructed
  /\ ev = NoEvent

NextSweep ==
  \/ \E x \in SweepInputs, p \in Prices :
        AnalyzeVaults([i \in 1..Len(x) |-> calculateVaultHealth(x[i][1], x[i][2], p)])
  \/ VaultAnalysed
  \/ AnalyzeRecheck
  \/ \E o \in SweepStrategyOutcomes : StrategyResolved(o)
  \/ \E o \in SweepAnalyzerOutcomes : AnalysisReturns(o)
  \/ \E d \in BatchSteps : TimeAdvances(d)

SpecSweep == InitSweep /\ [][NextSweep]_vars

\* ---------------------------------------------------------------- monitoring cycles
\* What the chain reads of a refresh come back with.
OnChainVaultLists == {<<>>, <<"v1", "v2">>}
OnChainPositionMaps == {<<>>, [v \in {"v1"} |-> "p1"]}
CycleOrigins == {"start", "timer"}
CycleSteps == {300000}

\* What generateContent comes back with to the executor in these runs.
CycleBackendOutcomes ==
  {[kind |-> k, name |-> "-", args |-> NoArgs] : k \in {"throw", "none"}}
  \cup {[kind |-> "call", name |-> "claim_and_rebalance", args |-> Args("v1", "p1")],
        [kind |-> "call", name |-> "skip_action", args |-> Args(Null, Null)]}

InitCycle ==
  /\ maxCallsPerMinute = [L \in Limiters |-> 1]
  /\ lastCalls = [L \in Limiters |-> <<>>]
  /\ admitted = [L \in Limiters |-> <<>>]
  /\ caller = [c \in Callers |-> IdleCaller]
  /\ cooldownSeconds = 0
  /\ lastActions = <<>>
  /\ exec = [e \in Slots |-> IdleExec]
  /\ lastWrite = <<>>
  /\ MonitorConstructed
  /\ AnalyzerConstructed
  /\ CycleConstructed
  /\ ev = NoEvent

NextCycle ==
  \/ \E o \in CycleOrigins, t \in 1..MaxTimers : RunMonitoringCycle(o, t)
  \/ \E l \in OnChainVaultLists : VaultsRead(ChainRead("ok", l))
  \/ \E m \in OnChainPositionMaps : PositionsRead(ChainRead("ok", m))
  \/ DemoMetrics
  \/ CycleAnalyzes
  \/ VaultAnalysed
  \/ AnalyzeRecheck
  \/ \E o \in SweepStrategyOutcomes : StrategyResolved(o)
  \/ \E o \in SweepAnalyzerOutcomes : AnalysisReturns(o)
  \/ CycleFilters
  \/ CycleDispatches
  \/ ActionReturned
  \/ ExecRecheck(BatchSlot)
  \/ \E o \in CycleBackendOutcomes : BackendReturns(BatchSlot, o)
  \/ \E ok \in BOOLEAN : ChainReturns(BatchSlot, ok)
  \/ CycleSummarises
  \/ StartArms
  \/ \E d \in CycleSteps : TimeAdvances(d)

SpecCycle == InitCycle /\ [][NextCycle]_vars

\* ---------------------------------------------------------------- registry
\* What the event queries of a refresh come back with: a failure, or events
\* naming a vault twice and a position for a vault that may be linked
\* already; and the vaults addVault is called with.
RegistryVaultReads ==
  {ChainRead("throw", <<>>), ChainRead("ok", <<"v1", "v1", "v2">>)}
RegistryPositionReads ==
  {ChainRead("throw", <<>>), ChainRead("ok", [v \in {"v1"} |-> "p1"])}
AddVaultCalls == {<<"v3", "">>, <<"v1", "p2">>}
RegistryStrategyOutcomes == {[kind |-> "null", thresholds |-> DefaultThresholds]}
RegistryAnalyzerOutcomes == {[Answer(Absent, Absent, Absent, Absent) EXCEPT !.kind = "throw"]}
RegistryBackendOutcomes == {[kind |-> "throw", name |-> "-", args |-> NoArgs]}

InitRegistry ==
  /\ maxCallsPerMinute = [L \in Limiters |-> 1]
  /\ lastCalls = [L \in Limiters |-> <<>>]
  /\ admitted = [L \in Limiters |-> <<>>]
  /\ caller = [c \in Callers |-> IdleCaller]
  /\ cooldownSeconds = 0
  /\ lastActions = <<>>
  /\ exec = [e \in Slots |-> IdleExec]
  /\ lastWrite = <<>>
  /\ MonitorConstructed
  /\ AnalyzerConstructed
  /\ CycleConstructed
  /\ ev = NoEvent

NextRegistry ==
  \/ \E a \in AddVaultCalls : AddVault(a[1], a[2])
  \/ \E o \in CycleOrigins, t \in 1..MaxTimers : RunMonitoringCycle(o, t)
  \/ \E o \in RegistryVaultReads : VaultsRead(o)
  \/ \E o \in RegistryPositionReads : PositionsRead(o)
  \/ DemoMetrics
  \/ CycleAnalyzes
  \/ VaultAnalysed
  \/ AnalyzeRecheck
  \/ \E o \in RegistryStrategyOutcomes : StrategyResolved(o)
  \/ \E o \in RegistryAnalyzerOutcomes : AnalysisReturns(o)
  \/ CycleFilters
  \/ CycleDispatches
  \/ ActionReturned
  \/ ExecRecheck(BatchSlot)
  \/ \E o \in RegistryBackendOutcomes : BackendReturns(BatchSlot, o)
  \/ \E ok \in BOOLEAN : ChainReturns(BatchSlot, ok)
  \/ CycleSummarises
  \/ StartArms
  \/ \E d \in CycleSteps : TimeAdvances(d)

SpecRegistry == InitRegistry /\ [][NextRegistry]_vars

\* ---------------------------------------------------------------- monitor
InitMonitor ==
  /\ maxCallsPerMinute = [L \in Limiters |-> 0]
  /\ lastCalls = [L \in Limiters |-> <<>>]
  /\ admitted = [L \in Limiters |-> <<>>]
  /\ caller = [c \in Callers |-> IdleCaller]
  /\ cooldownSeconds = 0
  /\ lastActions = <<>>
  /\ exec = [e \in Slots |-> IdleExec]
  /\ lastWrite = <<>>
  /\ MonitorConstructed
  /\ AnalyzerConstructed
  /\ CycleConstructed
  /\ ev = NoEvent

NextMonitor ==
  \/ start
  \/ StartResumes
  \/ \E t \in 1..MaxTimers : TimerFires(t)
  \/ CycleCompletes
  \/ stop

SpecMonitor == InitMonitor /\ [][NextMonitor]_vars

\* ---------------------------------------------------------------- cooldown gate
\* canAct(v) is called.
CanAct(v) ==
  /\ ev' = [Ev("canAct", "-") EXCEPT !.vault = v, !.answer = canAct(v)]
  /\ UNCHANGED <<limiterVars, cooldownVars, execVars, monitorVars, analyzerVars,
                 cycleVars>>

\* recordAction(v) is called; the event keeps what canAct(v) answered just
\* before.
RecordAction(v) ==
  /\ lastActions' = recordAction(v)
  /\ ev' = [Ev("recordAction", "-") EXCEPT !.vault = v, !.answer = canAct(v)]
  /\ UNCHANGED <<limiterVars, cooldownSeconds, execVars, monitorVars, analyzerVars,
                 cycleVars>>

\* getTimeUntilReady(v) is called.
GetTimeUntilReady(v) ==
  /\ ev' = [Ev("getTimeUntilReady", "-") EXCEPT !.vault = v,
              !.waitTime = getTimeUntilReady(v)]
  /\ UNCHANGED <<limiterVars, cooldownVars, execVars, monitorVars, analyzerVars,
                 cycleVars>>

InitCooldown ==
  /\ maxCallsPerMinute = [L \in Limiters |-> 0]
  /\ lastCalls = [L \in Limiters |-> <<>>]
  /\ admitted = [L \in Limiters |-> <<>>]
  /\ caller = [c \in Callers |-> IdleCaller]
  /\ cooldownSeconds \in CooldownChoices
  /\ lastActions = <<>>
  /\ exec = [e \in Slots |-> IdleExec]
  /\ lastWrite = <<>>
  /\ MonitorConstructed
  /\ AnalyzerConstructed
  /\ CycleConstructed
  /\ ev = NoEvent

NextCooldown ==
  \/ \E v \in Vaults : CanAct(v)
  \/ \E v \in Vaults : RecordAction(v)
  \/ \E v \in Vaults : GetTimeUntilReady(v)
  \/ CleanupCooldowns
  \/ \E d \in Steps : Tick(d)

SpecCooldown == InitCooldown /\ [][NextCooldown]_vars

\* ---------------------------------------------------------------- health
InitHealth ==
  /\ maxCallsPerMinute = [L \in Limiters |-> 0]
  /\ lastCalls = [L \in Limiters |-> <<>>]
  /\ admitted = [L \in Limiters |-> <<>>]
  /\ caller = [c \in Callers |-> IdleCaller]
  /\ cooldownSeconds = 0
  /\ lastActions = <<>>
  /\ exec = [e \in Slots |-> IdleExec]
  /\ lastWrite = <<>>
  /\ MonitorConstructed
  /\ ltvThresholds \in ThresholdProfiles
  /\ health = NoHealth
  /\ analyze = IdleAnalyze
  /\ CycleConstructed
  /\ ev = NoEvent

NextHealth ==
  \E o \in Owners, c \in CollateralAmounts, d \in DebtAmounts,
     f \in RewardSamples, p \in Prices :
    CalculateVaultHealth(VaultData("v1", o, c, d, f[2]), f[1], p)

SpecHealth == InitHealth /\ [][NextHealth]_vars

\* ---------------------------------------------------------------- analyzer
\* The vaults analysed, as <<vault, pendingRewards>>; analyzeVault is handed
\* the metrics calculateVaultHealth makes of them.
VaultSamples ==
  {<<VaultData("v1", o, 10000, d, f[2]), f[1]>> :
     o \in Owners, d \in DebtAmounts, f \in RewardSamples}
  \cup {<<VaultData("v2", "alice", 0, d, 0), 5>> : d \in {0, 6000}}

InitAnalyze ==
  /\ \E m \in AnalyzerRpmChoices :
       maxCallsPerMinute = [L \in Limiters |-> IF L = "Analyzer" THEN m ELSE 0]
  /\ lastCalls = [L \in Limiters |-> <<>>]
  /\ admitted = [L \in Limiters |-> <<>>]
  /\ caller = [c \in Callers |-> IdleCaller]
  /\ cooldownSeconds = 0
  /\ lastActions = <<>>
  /\ exec = [e \in Slots |-> IdleExec]
  /\ lastWrite = <<>>
  /\ MonitorConstructed
  /\ ltvThresholds \in {DefaultThresholds, LooserThresholds}
  /\ health = NoHealth
  /\ analyze = IdleAnalyze
  /\ CycleConstructed
  /\ ev = NoEvent

NextAnalyze ==
  \/ \E x \in VaultSamples, p \in Prices :
        AnalyzeVault(calculateVaultHealth(x[1], x[2], p))
  \/ AnalyzeRecheck
  \/ \E o \in StrategyOutcomes : StrategyResolved(o)
  \/ \E o \in AnalyzerOutcomes : AnalysisReturns(o)
  \/ \E d \in Steps : Tick(d)

SpecAnalyze == InitAnalyze /\ [][NextAnalyze]_vars

\* ---------------------------------------------------------------- C1
\* C1: two successful on-chain writes for the same vault are never less
\* than cooldownSeconds apart: when a write on a vault succeeds, the time
\* since the previous successful write on that vault is at least
\* cooldownSeconds.
C1_WritesCooldownApart ==
  (ev.op = "return" /\ ev.written # "-" /\ ev.gap # NoGap)
    => ev.gap >= cooldownSeconds * 1000

\* ---------------------------------------------------------------- C2
\* C2: at every moment at most one runMonitoringCycle invocation of a
\* VaultMonitor is in progress.
C2_NoOverlap == InFlight <= 1

\* ---------------------------------------------------------------- C3
\* Number of recorded admissions of L with a timestamp in (T - 60000, T].
InWindow(L, T) ==
  Cardinality({i \in 1..Len(admitted[L]) :
                 admitted[L][i] > T - Window /\ admitted[L][i] <= T})

\* C3: for every limiter instance, the number of admission timestamps
\* recorded within any trailing 60000 ms window never exceeds
\* maxCallsPerMinute of that instance.
C3_WindowCap ==
  \A L \in Limiters : InWindow(L, Now) <= maxCallsPerMinute[L]

\* A burst larger than the cap has been issued with two callers suspended
\* at once, while the window of the instance is full.
C3_Witness ==
  \E L \in Limiters :
    /\ maxCallsPerMinute[L] >= 1
    /\ InWindow(L, Now) = maxCallsPerMinute[L]
    /\ \A c \in Callers : caller[c].pc = "sleeping" /\ caller[c].limiter = L

\* ---------------------------------------------------------------- C4
Suspended(c) == caller[c].pc = "sleeping"
Returned(c) == caller[c].pc = "idle"

C5_StopPreventsCycles ==
  [][ /\ (~isRunning /\ ~isRunning') => InFlight' <= InFlight
      /\ ev'.op = "stop" =>
            /\ cycles' = cycles
            /\ ~isRunning' /\ monitorInterval' = NoTimer
            /\ (~isRunning /\ monitorInterval = NoTimer) => UNCHANGED monitorVars
    ]_vars

\* ---------------------------------------------------------------- C6
\* C6: start() while RUNNING starts no cycle and arms no timer; start()
\* while STOPPED sets RUNNING and begins exactly one cycle without arming a
\* timer; a timer is armed only when the initial cycle of a start() has
\* completed, and its handle is the one kept.
C6_Start ==
  [][ /\ (ev'.op = "start" /\ isRunning) => UNCHANGED monitorVars
      /\ (ev'.op = "start" /\ ~isRunning) =>
            /\ isRunning'
            /\ cycles' = [cycles EXCEPT !["start"] = @ + 1]
            /\ UNCHANGED <<monitorInterval, timers>>
      /\ ~(timers' \subseteq timers) =>
            /\ cycles["start"] > 0
            /\ cycles' = [cycles EXCEPT !["start"] = @ - 1]
            /\ Cardinality(timers' \ timers) = 1
            /\ monitorInterval' \in timers' \ timers
    ]_vars

\* start() has been called again while the initial cycle of the previous
\* start() was still in flight.
C6_Witness ==
  /\ ev.op = "start" /\ ev.who = "noop"
  /\ isRunning /\ cycles["start"] = 1 /\ timers = {}

\* ---------------------------------------------------------------- C7
\* C7: one executeAction call issues at most one on-chain write; a failed
\* backend-selected write is returned as success = false with an error and
\* is not followed by the fallback; on the fallback path only the fallback
\* writes.
C7_AtMostOneWrite ==
  /\ \A s \in Slots : exec[s].writes <= 1
  /\ ev.op = "return" => ev.writes <= 1
  /\ (ev.op = "return" /\ ev.path = "main" /\ ev.writes = 1 /\ ev.written = "-")
       => (~ev.success /\ ev.error /\ ev.action \in WriteTools)

\* A backend-selected write has failed and executeAction has returned it.
C7_Witness ==
  /\ ev.op = "return" /\ ev.path = "main" /\ ev.writes = 1
  /\ ~ev.success /\ ev.error

\* ---------------------------------------------------------------- C8
\* A step other than the passage of time creates or changes the record of v.
Stamped(v) ==
  /\ ev'.op # "tick"
  /\ v \in DOMAIN lastActions'
  /\ (v \notin DOMAIN lastActions \/ lastActions'[v] # lastActions[v])

\* C8: a cooldown record is created or refreshed only by an executeAction
\* that returns a successful claim_and_rebalance or rebalance_from_reserve
\* whose on-chain write went through.
C8_StampOnlyOnSuccessfulWrite ==
  [][ \A v \in Vaults : Stamped(v) =>
        /\ ev'.op = "return" /\ ev'.success
        /\ ev'.action \in WriteTools /\ ev'.written # "-"
        /\ ev'.vault = v
    ]_vars

\* A skip has returned successfully for a vault that has no cooldown record.
C8_Witness ==
  /\ ev.op = "return" /\ ev.success /\ ev.action = "skip"
  /\ ev.vault \notin DOMAIN lastActions

\* ---------------------------------------------------------------- C9
\* C9: immediately after executeAction returns success = true with action
\* claim_and_rebalance or rebalance_from_reserve, canAct(vaultId) is false
\* when cooldownSeconds > 0, whichever path performed the write.
C9_SuccessfulWriteStartsCooldown ==
  (ev.op = "return" /\ ev.success /\ ev.action \in WriteTools /\ cooldownSeconds > 0)
    => ~canAct(ev.vault)

\* ---------------------------------------------------------------- C10
\* The step is the call of executeAction by invocation s.
CallStep(s) ==
  exec[s].pc = "idle" /\ ev'.who = s /\ ev'.op \in {"executeAction", "return"}

\* The record of v is younger than cooldownSeconds.
OnCooldown(v) ==
  v \in DOMAIN lastActions /\ Now - lastActions[v] < cooldownSeconds * 1000

\* C10: an executeAction called for a vault on cooldown returns the failed
\* 'cooldown' result and changes nothing: no slot is recorded in the
\* Executor window, the backend is not invoked, no write is issued and the
\* cooldown record is unchanged.
C10_BlockedChangesNothing ==
  [][ \A s \in Slots : (CallStep(s) /\ OnCooldown(ev'.vault)) =>
        /\ ev'.op = "return" /\ ev'.action = "cooldown" /\ ~ev'.success
        /\ UNCHANGED <<lastCalls, admitted, lastActions, lastWrite, exec>>
    ]_vars

\* A call has been answered with 'cooldown' while the Executor window had
\* room for it.
C10_Witness ==
  /\ ev.op = "return" /\ ev.action = "cooldown" /\ ev.waitTime > 0
  /\ canCall("Executor")

\* ---------------------------------------------------------------- C11
\* C11: for cooldownSeconds > 0, canAct(e) answers true when e has no
\* record and otherwise exactly when the time since the record was stamped
\* is at least cooldownSeconds; recordAction(e) stamps the current time
\* whatever canAct(e) was, and canAct(e) is false right after it.
C11_GateOpensAfterCooldown ==
  cooldownSeconds > 0 =>
    /\ ev.op = "canAct" =>
          ev.answer = (\/ ev.vault \notin DOMAIN lastActions
                       \/ Now - lastActions[ev.vault] >= cooldownSeconds * 1000)
    /\ ev.op = "recordAction" =>
          /\ ev.vault \in DOMAIN lastActions
          /\ lastActions[ev.vault] = Now
          /\ ~canAct(ev.vault)

\* canAct has answered true exactly cooldownSeconds after the stamp.
C11_Witness ==
  /\ cooldownSeconds > 0
  /\ ev.op = "canAct" /\ ev.answer
  /\ ev.vault \in DOMAIN lastActions
  /\ Now - lastActions[ev.vault] = cooldownSeconds * 1000

\* ---------------------------------------------------------------- C12
\* C12: with cooldownSeconds = 0, canAct is true for every entity in every
\* reachable state, also right after a stamp, and no executeAction is
\* answered with the 'cooldown' result.
C12_ZeroCooldownNeverBlocks ==
  cooldownSeconds = 0 =>
    /\ \A v \in Vaults : canAct(v)
    /\ ev.action # "cooldown"

\* With cooldownSeconds = 0, executeAction has been called for a vault
\* stamped at this very instant and has gone on to the rate limiter.
C12_Witness ==
  /\ cooldownSeconds = 0
  /\ ev.op = "executeAction"
  /\ ev.vault \in DOMAIN lastActions
  /\ lastActions[ev.vault] = Now

\* ---------------------------------------------------------------- C13
\* C13: cleanup deletes exactly the records older than 2 x cooldownSeconds
\* and leaves every other record as it was.
C13_CleanupRemovesOnlyOld ==
  [][ ev'.op = "cleanup" =>
        LET threshold == cooldownSeconds * 2 * 1000
        IN /\ DOMAIN lastActions' =
                {v \in DOMAIN lastActions : Now - lastActions[v] <= threshold}
           /\ \A v \in DOMAIN lastActions' : lastActions'[v] = lastActions[v]
    ]_vars

\* A cleanup has deleted a record and kept one aged exactly 2 x cooldownSeconds.
C13_Witness ==
  /\ cooldownSeconds > 0
  /\ ev.op = "cleanup" /\ ev.removed # {}
  /\ \E v \in DOMAIN lastActions :
        Now - lastActions[v] = cooldownSeconds * 2 * 1000

TierRank(status) ==
  CASE status = "HEALTHY" -> 0
    [] status = "WARNING" -> 1
    [] status = "AT_RISK" -> 2
    [] status = "CRITICAL" -> 3
    [] status = "LIQUIDATABLE" -> 4

StrictlyIncreasing(t) ==
  t.warning < t.rebalance /\ t.rebalance < t.maxBorrow /\ t.maxBorrow < t.liquidation

\* C15: under a strictly increasing profile, of two classified vaults the
\* one with the larger ltvBps never has the lower tier.
C15_TierMonotone ==
  (/\ StrictlyIncreasing(ltvThresholds)
   /\ health.prev.vaultId # "-" /\ health.last.vaultId # "-"
   /\ health.prev.ltvBps <= health.last.ltvBps)
    => TierRank(health.prev.healthStatus) <= TierRank(health.last.healthStatus)

\* Two vaults one basis point apart have been classified into different
\* tiers under a strictly increasing profile.
C15_Witness ==
  /\ StrictlyIncreasing(ltvThresholds)
  /\ health.prev.vaultId # "-" /\ health.last.vaultId # "-"
  /\ health.prev.ltvBps + 1 = health.last.ltvBps
  /\ TierRank(health.prev.healthStatus) < TierRank(health.last.healthStatus)

\* ---------------------------------------------------------------- C16
\* C16: a result produced by the fallback rules has confidence 0.9 and,
\* for the profile t the rules were given and funds = (pendingRewards > 0
\* or rewardReserve > 0): at or above liquidation or maxBorrow it acts with
\* URGENT_REBALANCE; else at or above rebalance the action is REBALANCE and
\* it acts iff funds; else at or above warning the action is CLAIM_REWARDS
\* and it acts iff funds; below warning it acts with CLAIM_REWARDS if funds
\* and otherwise does not act, with action NONE.
C16_FallbackRules ==
  LET m == analyze.metrics
      t == analyze.used
      r == analyze.result
      funds == m.pendingRewards > 0 \/ m.rewardReserve > 0
      urgent == m.ltvBps >= t.liquidation \/ m.ltvBps >= t.maxBorrow
      rebalance == ~urgent /\ m.ltvBps >= t.rebalance
      warning == ~urgent /\ ~rebalance /\ m.ltvBps >= t.warning
      healthy == ~urgent /\ ~rebalance /\ ~warning
  IN analyze.path \in {"parse-fallback", "catch-fallback"} =>
       /\ r.confidence = 9
       /\ urgent => (r.shouldAct /\ r.action = "URGENT_REBALANCE")
       /\ rebalance => (r.shouldAct = funds /\ r.action = "REBALANCE")
       /\ warning => (r.shouldAct = funds /\ r.action = "CLAIM_REWARDS")
       /\ (healthy /\ funds) => (r.shouldAct /\ r.action = "CLAIM_REWARDS")
       /\ (healthy /\ ~funds) => (~r.shouldAct /\ r.action = "NONE")
       /\ (t = DefaultThresholds /\ m.ltvBps = 4500 /\ m.pendingRewards > 0)
             => (r.shouldAct /\ r.action = "CLAIM_REWARDS")
       /\ (t = DefaultThresholds /\ m.ltvBps = 8500)
             => (r.shouldAct /\ r.action = "URGENT_REBALANCE")
       /\ (t = DefaultThresholds /\ m.ltvBps = 6800 /\ ~funds) => ~r.shouldAct

\* The fallback has analysed a vault at ltvBps 4500 with pending rewards
\* under the default profile.
C16_Witness ==
  /\ analyze.path = "parse-fallback"
  /\ analyze.used = DefaultThresholds
  /\ analyze.metrics.ltvBps = 4500 /\ analyze.metrics.pendingRewards > 0
  /\ analyze.result.shouldAct

\* ---------------------------------------------------------------- C17
\* C17: when analyzeVault falls back to the rules, it evaluates them with
\* the profile resolved for the owner in that call, whether the answer
\* could not be parsed or the backend invocation failed, so both failures
\* give the same result for the same metrics and resolved profile.
C17_FallbackUsesResolvedProfile ==
  analyze.path \in {"parse-fallback", "catch-fallback"} =>
    /\ analyze.used = analyze.thresholds
    /\ analyze.result = fallbackAnalysis(analyze.metrics, analyze.thresholds)

\* ---------------------------------------------------------------- C18
\* C18: every AnalysisResult carries estimatedRewardsNeeded =
\* max(0, floor(debtValue * 10000 / 5500) - collateralValue) and
\* availableRewards = pendingRewards + rewardReserve, on the parsed path
\* and on the fallback paths, whatever the backend answered.
C18_RewardsComputedLocally ==
  LET m == analyze.metrics
      r == analyze.result
      shortfall == (m.debtValue * 10000) \div 5500 - m.collateralValue
  IN analyze.path # "-" =>
       /\ r.estimatedRewardsNeeded = (IF shortfall > 0 THEN shortfall ELSE 0)
       /\ r.availableRewards = m.pendingRewards + m.rewardReserve

\* A parsed answer that carried reward figures of its own has been
\* returned for a vault short of collateral.
C18_Witness ==
  /\ analyze.path = "parsed" /\ analyze.result.confidence = 8
  /\ analyze.result.estimatedRewardsNeeded > 0
  /\ analyze.result.estimatedRewardsNeeded # 999

\* ---------------------------------------------------------------- C19
\* C19: whatever the strategy lookup and the backend come back with,
\* analyzeVault goes on after the lookup and, when the backend has come
\* back, returns one AnalysisResult for the vault it was given; it never
\* throws.
C19_AnalyzeVaultTotal ==
  [][ /\ (analyze.pc = "strategy" /\ analyze'.pc # "strategy") =>
            analyze'.pc = "backend"
      /\ (analyze.pc = "backend" /\ analyze'.pc # "backend") =>
            /\ analyze'.pc = "idle"
            /\ ev'.op = "analyzeVault returned" /\ ~ev'.error
            /\ analyze'.result # NoAnalysis
            /\ analyze'.result.vaultId = analyze.metrics.vaultId
    ]_vars

\* analyzeVault has returned a result after the backend invocation threw.
C19_Witness ==
  /\ ev.op = "analyzeVault returned" /\ ev.path = "catch-fallback"
  /\ analyze.result.vaultId = analyze.metrics.vaultId

\* ---------------------------------------------------------------- C20
\* The step is invocation s entering the fallback from the backend call.
FallbackStep(s) ==
  exec[s].pc = "backend" /\ ev'.who = s /\ ev'.path = "fallback"

\* C20: when the backend invocation or the tool translation throws,
\* executeAction decides locally, with no admission and no backend call:
\* pendingRewards > 0 with a stake position -> claim_and_rebalance; else
\* rewardReserve > 0 -> rebalance_from_reserve; else a successful skip
\* without a write.
C20_FallbackPolicy ==
  [][ \A s \in Slots : FallbackStep(s) =>
        LET c == exec[s]
            claim == c.pendingRewards > 0 /\ c.stake # Null
            reserve == ~claim /\ c.rewardReserve > 0
        IN /\ UNCHANGED <<lastCalls, admitted>>
           /\ exec'[s].pc \notin {"backend", "sleeping"}
           /\ claim => /\ ev'.op = "write"
                       /\ exec'[s].tool = "claim_and_rebalance"
                       /\ exec'[s].target = c.vault
           /\ reserve => /\ ev'.op = "write"
                         /\ exec'[s].tool = "rebalance_from_reserve"
                         /\ exec'[s].target = c.vault
           /\ (~claim /\ ~reserve) =>
                 /\ ev'.op = "return" /\ ev'.action = "skip" /\ ev'.success
                 /\ ev'.writes = 0 /\ exec'[s].pc = "idle"
    ]_vars

\* The fallback has chosen rebalance_from_reserve for a vault with pending
\* rewards but no stake position.
C20_Witness ==
  \E s \in Slots :
    /\ ev.op = "write" /\ ev.who = s /\ ev.path = "fallback"
    /\ exec[s].tool = "rebalance_from_reserve"
    /\ exec[s].pendingRewards > 0 /\ exec[s].stake = Null


\* ---------------------------------------------------------------- C21
\* C21: when the backend returns without a tool selection (no function
\* call, or a call without a name), executeAction returns a failed result
\* tagged 'no_action' for the vault of the call, and the step issues no
\* on-chain write, dispatches no fallback and stamps no cooldown.
C21_NoSelectionNoAction ==
  [][ev'.selection \in {"none", "noname"} =>
       /\ ev'.op = "return"
       /\ ev'.action = "no_action" /\ ~ev'.success /\ ev'.error
       /\ ev'.resultVault = ev'.vault
       /\ exec[ev'.who].pc = "backend" /\ ev'.vault = exec[ev'.who].vault
       /\ exec'[ev'.who] = IdleExec
       /\ ev'.path = "main" /\ ev'.writes = 0 /\ ev'.written = "-"
       /\ \A t \in Slots : exec'[t].pc # "write"
       /\ lastWrite' = lastWrite
       /\ lastActions' = lastActions]_vars

\* A call for a vault with claimable rewards, which the fallback would have
\* written for, has returned 'no_action' after a function call without a
\* name, and the vault carries no cooldown stamp.
C21_Witness ==
  /\ ev.op = "return" /\ ev.selection = "noname" /\ ev.action = "no_action"
  /\ ev.vault \notin DOMAIN lastActions


\* ---------------------------------------------------------------- C22
\* Severity of an action as the claim ranks it: URGENT_REBALANCE, then
\* REBALANCE, then CLAIM_REWARDS, then every other action.
Severity(action) ==
  CASE action = "URGENT_REBALANCE" -> 3
    [] action = "REBALANCE" -> 2
    [] action = "CLAIM_REWARDS" -> 1
    [] OTHER -> 0

\* C22: executeActions dispatches only analyses with shouldAct = true and
\* action # NONE, in non-increasing severity whatever order they arrived
\* in, and the Executor works on nothing but the analysis dispatched last.
C22_DispatchBySeverity ==
  LET d == executionRun.dispatched
  IN /\ \A i \in 1..Len(d) : d[i].shouldAct /\ d[i].action # "NONE"
     /\ \A i, j \in 1..Len(d) :
          i < j => Severity(d[i].action) >= Severity(d[j].action)
     /\ exec[BatchSlot].pc # "idle" =>
          d # <<>> /\ exec[BatchSlot].vault = d[Len(d)].vaultId


\* ---------------------------------------------------------------- C23
\* ltvBps of the entity v among the metrics analyzeVaults was handed.
LtvOf(v) ==
  (CHOOSE m \in {analysisRun.metricsArray[k] : k \in 1..Len(analysisRun.metricsArray)} :
     m.vaultId = v).ltvBps

\* C23: analyzeVaults calls analyzeVault for the entities one after another
\* in non-increasing ltvBps order: while a call is in progress it is the
\* call for the entity started last and every entity started before it
\* already has its result; result i belongs to the i-th entity started;
\* and on return there is one result per input entity, in non-increasing
\* ltvBps order.
C23_SequentialByLtv ==
  LET run == analysisRun
      n == Len(run.started)
  IN /\ \A i, j \in 1..n : i < j => run.started[i].ltvBps >= run.started[j].ltvBps
     /\ Len(run.results) <= n
     /\ \A i \in 1..Len(run.results) : run.results[i].vaultId = run.started[i].vaultId
     /\ analyze.pc # "idle" =>
           /\ run.pc = "await"
           /\ analyze.metrics = run.started[n]
           /\ Len(run.results) = n - 1
           /\ \A k \in 1..Len(run.sorted) : run.sorted[k].ltvBps <= analyze.metrics.ltvBps
     /\ run.pc = "done" =>
           /\ Len(run.results) = Len(run.metricsArray)
           /\ {run.results[i].vaultId : i \in 1..Len(run.results)}
                = {run.metricsArray[i].vaultId : i \in 1..Len(run.metricsArray)}
           /\ \A i, j \in 1..Len(run.results) :
                 i < j => LtvOf(run.results[i].vaultId) >= LtvOf(run.results[j].vaultId)

\* analyzeVaults has returned three results for entities that arrived with
\* the lowest LTV first and the highest last; the first result is the
\* last entity's.
C23_Witness ==
  /\ analysisRun.pc = "done"
  /\ Len(analysisRun.results) = 3
  /\ analysisRun.metricsArray[1].ltvBps < analysisRun.metricsArray[2].ltvBps
  /\ analysisRun.metricsArray[2].ltvBps < analysisRun.metricsArray[3].ltvBps
  /\ analysisRun.results[1].vaultId = analysisRun.metricsArray[3].vaultId

\* A step of the executor: a dispatch, an admission after a wait, a backend
\* return or a write return.
ExecutorActs ==
  \/ ev'.op \in {"executeAction", "return", "write"}
  \/ ev'.op = "recheck" /\ ev'.who = BatchSlot
  \/ exec' # [e \in Slots |-> [exec[e] EXCEPT !.timer = exec'[e].timer]]
  \/ admitted'["Executor"] # admitted["Executor"] /\ ev'.op # "tick"
  \/ DOMAIN lastWrite' # DOMAIN lastWrite

\* C24: in a cycle whose analyses have no shouldAct = true the executor is
\* never invoked.  The step that receives such analyses ends the cycle
\* without touching the executor, and whenever executeActions is called or
\* the executor takes a step (admission on the 'Executor' limiter, backend
\* call, write), the running cycle holds an analysis with shouldAct = true.
C24_NoActionNoExecutor ==
  [][/\ (cycleRun.pc = "analysis" /\ analysisRun.pc = "done"
         /\ \A i \in 1..Len(analysisRun.results) : ~analysisRun.results[i].shouldAct)
        => /\ cycleRun'.pc \in {"idle", "returned"}
           /\ ~ExecutorActs
           /\ UNCHANGED <<limiterVars, cooldownVars, execVars, executionRun>>
     /\ (ExecutorActs \/ executionRun' # executionRun)
        => /\ cycleRun.pc = "dispatch"
           /\ \E i \in 1..Len(cycleRun.actionable) : cycleRun.actionable[i].shouldAct
    ]_vars
\* the cycle of the last demo scenario (AT_RISK at 6800 without rewards or
\* reserve), analysed by the fallback rules, has ended without a dispatch
C24_Witness ==
  /\ ev.op = "cycle ended" /\ ~ev.error
  /\ analyze.path = "catch-fallback"
  /\ analyze.metrics.ltvBps = 6800 /\ analyze.metrics.healthStatus = "AT_RISK"
  /\ analyze.metrics.pendingRewards = 0 /\ analyze.metrics.rewardReserve = 0
  /\ analyze.result.action = "REBALANCE" /\ ~analyze.result.shouldAct
  /\ exec[BatchSlot] = IdleExec
  /\ executionRun = IdleExecutionRun

\* C25: runMonitoringCycle never throws.  A failure raised inside the cycle
\* is caught there, reported as exactly one event of type 'error', and the
\* cycle ends; no step taken while a cycle runs touches the interval
\* timers, the interval handle or the running flag, and after a failed
\* cycle the callback of the armed interval can start the next cycle.
C25_CycleNeverThrows ==
  /\ [](cycleRun.pc # "threw")
  /\ []((ev.op = "cycle ended" /\ ev.error /\ cycleRun.pc = "idle" /\ timers # {})
          => ENABLED (\E t \in 1..MaxTimers : RunMonitoringCycle("timer", t)))
  /\ [][/\ (cycleRun.pc = "dispatch" /\ executionRun.pc = "threw")
            => /\ ev'.op = "cycle ended" /\ ev'.error
               /\ ev'.action = "error" /\ ev'.writes = 1
               /\ cycleRun'.pc \in {"idle", "returned"}
        /\ (cycleRun.pc \notin {"idle", "returned"})
            => UNCHANGED <<timers, monitorInterval, isRunning>>
       ]_vars
\* a cycle started by the interval has failed and ended, the interval
\* still armed
C25_Witness ==
  /\ ev.op = "cycle ended" /\ ev.error /\ ev.who = "timer" /\ ev.writes = 1
  /\ cycleRun.pc = "idle"
  /\ monitorInterval \in timers

\* C26: the registry refresh is throttled.  A cycle that starts less than
\* refreshIntervalMs after the last performed refresh gets refreshCachedData
\* back at once: no chain read, and registry, position map, lastRefresh
\* and cooldown records as they were.  Otherwise (the first cycle included)
\* the two chain reads are made, and the step that completes the refresh
\* stamps lastRefresh with the time the refresh began at and cleans the
\* cooldown records up, once per refresh.
C26_RefreshThrottled ==
  [][/\ (ev'.op = "runMonitoringCycle" /\ Now - lastRefresh < refreshIntervalMs)
        => /\ cycleRun'.pc = "refreshed" /\ cycleRun'.reads = 0 /\ cycleRun'.cleanups = 0
           /\ UNCHANGED <<authorizedVaults, autoRebalancePositions, lastRefresh,
                          lastActions>>
     /\ (ev'.op = "runMonitoringCycle" /\ ~(Now - lastRefresh < refreshIntervalMs))
        => /\ cycleRun'.pc = "vaults" /\ cycleRun'.reads = 1 /\ cycleRun'.cleanups = 0
           /\ UNCHANGED <<authorizedVaults, autoRebalancePositions, lastRefresh,
                          lastActions>>
     /\ (cycleRun.pc = "vaults" /\ cycleRun'.pc # "vaults")
        => /\ cycleRun'.pc = "positions" /\ cycleRun'.reads = 2
           /\ UNCHANGED <<authorizedVaults, autoRebalancePositions, lastRefresh,
                          lastActions>>
     /\ (cycleRun.pc = "positions" /\ cycleRun'.pc # "positions")
        => /\ cycleRun'.pc = "refreshed" /\ cycleRun'.reads = 2
           /\ cycleRun'.cleanups = 1
           /\ lastRefresh' = cycleRun.now
           /\ lastActions' = cleanup
     /\ (cycleRun.pc = "refreshed")
        => /\ cycleRun'.cleanups = cycleRun.cleanups
           /\ cycleRun'.reads = cycleRun.reads
           /\ UNCHANGED <<authorizedVaults, lastRefresh, lastActions>>
    ]_vars
\* a cycle started within the interval of a performed refresh: its
\* refreshCachedData has returned without a read
C26_Witness ==
  /\ ev.op = "runMonitoringCycle" /\ ev.answer = FALSE
  /\ cycleRun.pc = "refreshed" /\ cycleRun.reads = 0
  /\ lastRefresh > NeverRefreshed
  /\ authorizedVaults # <<>>

\* C27: in each monitoring cycle metrics are computed for every vault of
\* the tracked registry and all of them are handed to analyzeVaults: when
\* the analysis of a cycle begins, each tracked vault has its metrics in
\* the array under analysis.
C27_EveryTrackedVaultAnalysed ==
  cycleRun.pc = "analysis"
    => \A i \in 1..Len(authorizedVaults) :
         \E j \in 1..Len(cycleRun.metricsArray) :
           cycleRun.metricsArray[j].vaultId = authorizedVaults[i]

\* C28: when the backend's answer parses as a JSON object, the result has
\* the RecommendedAction named by the answer's action string, NONE when
\* that string names none or is missing, shouldAct false when the answer
\* has no shouldAct, and confidence 0.5 when it has no confidence.
C28_ParsedAnswerMapping ==
  (ev.op = "analyzeVault returned" /\ ev.path = "parsed")
    => LET answer == ev.response
           result == analyze.result
       IN /\ result.action =
               (IF answer.action # Absent /\ answer.action[1] \in RecommendedActions
                  THEN answer.action[1] ELSE "NONE")
          /\ result.shouldAct =
               (IF answer.shouldAct = Absent THEN FALSE ELSE answer.shouldAct[1])
          /\ result.confidence =
               (IF answer.confidence = Absent THEN DefaultConfidence
                ELSE answer.confidence[1])

\* C29: the metrics the health calculation returns have
\* ltvBps = floor(debtValue * 10000 / collateralValue) when collateralValue
\* is positive, and ltvBps = 0 when it is zero, in which case the vault is
\* HEALTHY whatever its debt.
C29_LtvFormula ==
  ev.op = "calculateVaultHealth"
    => LET m == health.last
       IN /\ m.collateralValue > 0
               => /\ m.ltvBps * m.collateralValue <= m.debtValue * 10000
                  /\ m.debtValue * 10000 < (m.ltvBps + 1) * m.collateralValue
          /\ m.collateralValue = 0
               => m.ltvBps = 0 /\ m.healthStatus = "HEALTHY"
\* a vault with debt and no collateral value has come out HEALTHY, after a
\* vault whose quotient had to be rounded down
C29_Witness ==
  /\ ev.op = "calculateVaultHealth"
  /\ health.last.collateralValue = 0 /\ health.last.debtValue > 0
  /\ health.last.ltvBps = 0 /\ health.last.healthStatus = "HEALTHY"
  /\ health.prev.collateralValue > 0
  /\ health.prev.ltvBps * health.prev.collateralValue < health.prev.debtValue * 10000

\* C30: when getStrategy throws or comes back without a strategy,
\* analyzeVault goes on with the configured default profile: the prompt is
\* built with it, the fallback rules, when they are used, are evaluated
\* with it, and the call returns a result for the vault.
C30_DefaultProfileOnResolutionFailure ==
  analyze.strategy \in {"throw", "null"}
    => /\ analyze.pc \in {"backend", "idle"}
       /\ analyze.thresholds = ltvThresholds
       /\ analyze.pc = "idle"
            => /\ ev.op = "analyzeVault returned" => ~ev.error
               /\ analyze.result.vaultId = analyze.metrics.vaultId
               /\ analyze.path \in {"parsed", "parse-fallback", "catch-fallback"}
               /\ analyze.path \in {"parse-fallback", "catch-fallback"}
                    => /\ analyze.used = ltvThresholds
                       /\ analyze.result = fallbackAnalysis(analyze.metrics, ltvThresholds)
\* getStrategy threw under a configured profile that is not the built-in
\* one, the backend's answer did not parse, and the fallback rules have
\* decided with the configured profile
C30_Witness ==
  /\ analyze.strategy = "throw" /\ analyze.pc = "idle"
  /\ analyze.path = "parse-fallback"
  /\ ltvThresholds = LooserThresholds
  /\ analyze.used = LooserThresholds
  /\ analyze.result # fallbackAnalysis(analyze.metrics, DefaultThresholds)

\* ---------------------------------------------------------------- C31
\* The step pushes one timestamp on the window of limiter L, which had room
\* for it, and leaves the window of the other limiter alone.
AdmittedOn(L) ==
  /\ ev'.limiter = L /\ ev'.admit
  /\ Len(RecentCalls(lastCalls[L])) < maxCallsPerMinute[L]
  /\ lastCalls'[L] = Append(RecentCalls(lastCalls[L]), Now)
  /\ \A K \in Limiters \ {L} : lastCalls'[K] = lastCalls[K]

\* C31: every backend invocation is preceded, in the same analyzeVault or
\* executeAction call, by exactly one admission on the component's own
\* limiter.  An executeAction reaches its generateContent call only in the
\* step in which waitForSlot pushes its timestamp on 'Executor'; an
\* analyzeVault goes on to the strategy lookup and the backend only from
\* the step that pushes on 'Analyzer'; a suspended call gets there only
\* once its timer has expired and the re-check admits it.
C31_AdmissionBeforeBackend ==
  [][/\ \A s \in Slots :
          (exec[s].pc # "backend" /\ exec'[s].pc = "backend")
            => /\ exec[s].pc \in {"idle", "sleeping"}
               /\ exec[s].pc = "sleeping" => exec[s].timer = 0
               /\ AdmittedOn("Executor")
     /\ (analyze.pc # "strategy" /\ analyze'.pc = "strategy")
          => /\ analyze.pc \in {"idle", "sleeping"}
             /\ analyze.pc = "sleeping" => analyze.timer = 0
             /\ AdmittedOn("Analyzer")
     /\ (analyze.pc # "backend" /\ analyze'.pc = "backend")
          => /\ analyze.pc = "strategy"
             /\ UNCHANGED lastCalls
    ]_vars
\* an executeAction has just been admitted on 'Executor' and is at its
\* backend call, the 'Analyzer' window holding the timestamp of the
\* analysis that led to it
C31_Witness ==
  /\ ev.op = "executeAction" /\ ev.who = BatchSlot /\ ev.admit
  /\ exec[BatchSlot].pc = "backend"
  /\ Len(lastCalls["Executor"]) = 1 /\ lastCalls["Executor"][1] = Now
  /\ lastCalls["Analyzer"] # <<>>

\* ---------------------------------------------------------------- C32
\* C32: the window of a RateLimiter is changed by waitForSlot alone.
\* canCall and getRemainingCalls leave the recorded timestamps of every
\* instance as they are, the timestamps of an instance change only in a
\* waitForSlot pass on that instance, and such a pass changes neither the
\* window of the other instance nor what the other instance would answer
\* to canCall, getRemainingCalls or an admission attempt.
C32_WindowOwnedByWaitForSlot ==
  [][/\ ev'.op \in {"canCall", "getRemainingCalls"}
          => UNCHANGED <<lastCalls, maxCallsPerMinute>>
     /\ \A L \in Limiters :
          (lastCalls'[L] # lastCalls[L] /\ ev'.op # "tick")
            => ev'.op \in {"waitForSlot", "recheck"} /\ ev'.limiter = L
     /\ \A L \in Limiters, K \in Limiters :
          (ev'.op \in {"waitForSlot", "recheck"} /\ ev'.limiter = L /\ K # L)
            => /\ lastCalls'[K] = lastCalls[K]
               /\ canCall(K)' = canCall(K)
               /\ getRemainingCalls(K)' = getRemainingCalls(K)
               /\ waitForSlot(K)' = waitForSlot(K)
    ]_vars
\* canCall has answered true on 'Executor', whose window still holds the
\* expired timestamp that the answer left out, while 'Analyzer' has
\* admissions of its own
C32_Witness ==
  /\ ev.op = "canCall" /\ ev.limiter = "Executor" /\ ev.answer
  /\ Len(lastCalls["Executor"]) > Len(RecentCalls(lastCalls["Executor"]))
  /\ lastCalls["Analyzer"] # <<>>

\* ---------------------------------------------------------------- C33
\* C33: the write issued by executeAction(analysis, ...) targets
\* analysis.vaultId whatever the backend selected, and the vault whose
\* cooldown is stamped is the vault written: a write under way is on the
\* vault of its call, and a call that returns after a successful write has
\* written its own vault and, when it stamped, stamped that vault.
C33_WriteTargetsDispatchedVault ==
  /\ \A s \in Slots : exec[s].pc = "write" => exec[s].target = exec[s].vault
  /\ (ev.op = "return" /\ ev.written # "-")
       => /\ ev.written = ev.vault
          /\ (ev.path = "main" /\ ev.success)
               => ev.written \in DOMAIN lastActions /\ lastActions[ev.written] = Now

\* ---------------------------------------------------------------- C34
\* C34: under any interleaving of start(), stop() and cycle completions at
\* most one interval timer is armed, the armed timer is the one
\* monitorInterval refers to, and a timer is armed only while isRunning.
C34_OneTimerWhileRunning ==
  /\ Cardinality(timers) <= 1
  /\ timers # {} => timers = {monitorInterval} /\ isRunning

\* ---------------------------------------------------------------- C35
\* C35: cleanup never changes the answer of the gate.  For every entity,
\* canAct and getTimeUntilReady right after a cleanup are what they were
\* right before it, and every record the cleanup removed was one for which
\* canAct was already true.
C35_CleanupKeepsAnswers ==
  [][ev'.op = "cleanup"
       => /\ \A v \in Vaults :
               /\ canAct(v)' = canAct(v)
               /\ getTimeUntilReady(v)' = getTimeUntilReady(v)
          /\ \A v \in ev'.removed : canAct(v) /\ getTimeUntilReady(v) = 0
    ]_vars
\* a cleanup has removed one record and kept another that is still in its
\* cooldown
C35_Witness ==
  /\ ev.op = "cleanup" /\ ev.removed # {}
  /\ \E v \in DOMAIN lastActions : ~canAct(v) /\ getTimeUntilReady(v) > 0

Oldest(calls) ==
  CHOOSE t \in {calls[i] : i \in 1..Len(calls)} :
    \A i \in 1..Len(calls) : t <= calls[i]

\* C37: whenever waitForSlot finds the limiter at its cap, for whatever cap
\* and call history, the wait it computes is a number, positive and at
\* most 60100 ms, equal to oldestRecentCall + 60000 - now + 100 with
\* oldestRecentCall the smallest timestamp still in the window.
C37_WaitAtCap ==
  (ev.op \in {"waitForSlot", "recheck"} /\ ~ev.admit)
    => /\ ev.waitTime # NaN
       /\ lastCalls[ev.limiter] # <<>>
       /\ ev.waitTime = Oldest(lastCalls[ev.limiter]) + 60000 - Now + 100
       /\ ev.waitTime > 0 /\ ev.waitTime <= 60100


\* ---------------------------------------------------------------- C38
\* No vault id occurs twice in the tracked list.
NoDuplicate(tracked) ==
  \A i, j \in 1..Len(tracked) : tracked[i] = tracked[j] => i = j

C39_UnknownToolFails ==
  [][ \A s \in Slots, o \in BackendOutcomes :
        (o.kind = "call" /\ o.name \notin ToolNames /\ BackendReturns(s, o)) =>
           /\ ev'.op = "return" /\ ev'.who = s
           /\ ~ev'.success /\ ev'.error
           /\ ev'.action = o.name
           /\ ev'.path = "main"
           /\ ev'.writes = 0 /\ ev'.written = "-"
           /\ exec'[s].pc = "idle"
           /\ UNCHANGED <<lastActions, lastWrite>>
    ]_vars

\* executeAction has just returned the failed result of the unknown tool
\* 'transfer_funds' for vault 'v1', which has no cooldown record and was
\* never written to.
C39_Witness ==
  /\ ev.op = "return" /\ ev.vault = "v1"
  /\ ev.action \in UnknownTools /\ ev.resultVault = "unknown"
  /\ ~ev.success /\ ev.path = "main" /\ ev.writes = 0
  /\ "v1" \notin DOMAIN lastActions
  /\ "v1" \notin DOMAIN lastWrite

====
